---- MODULE Spec2Model ----
(***************************************************************************)
(* Trade-option engine of the fantasy trade calculator:                    *)
(* nrl_trade_calculator.py (calculate_trade_options,                       *)
(* generate_trade_options and their nested helpers).                       *)
(*                                                                         *)
(* Numbers.  Price is an integer number of dollars.  Diff is a float in    *)
(* the code; here it is an integer number of thousandths of a point        *)
(* (7.80 is 7800), fine enough to hold every threshold of the level table  *)
(* and values between two adjacent thresholds.  Projection is an integer   *)
(* number of points.  bye_round_grade is 1..4, and 0 stands for a missing  *)
(* grade (NaN / None in the code).  POS2 "" stands for a missing secondary *)
(* position.                                                               *)
(***************************************************************************)
EXTENDS Integers, Sequences, FiniteSets, TLC

VARIABLES
    request,              \* arguments of calculate_trade_options
    pc,                   \* position in the call: "called", "search", "sort", "done"
    players,              \* generate_trade_options: the sorted list `players`
    salary_freed,         \* budget handed to generate_trade_options
    traded_out_positions, \* position requirements handed to generate_trade_options
    num_players_needed,   \* len(full_traded_out_players)
    i,                    \* index of the outer loop (1-based)
    used_players,         \* names already placed in a combination
    valid_combinations,   \* combinations accepted so far, in acceptance order
    result,               \* the returned list
    probe,                \* arguments of a helper called on its own
    probe_out             \* what the helper returned

vars == <<request, pc, players, salary_freed, traded_out_positions,
          num_players_needed, i, used_players, valid_combinations, result,
          probe, probe_out>>

(***************************************************************************)
(* Bounds of the model.                                                    *)
(***************************************************************************)
\* largest candidate pool (rows left after the filters) of a request
MaxPool == 4
\* largest number of traded-out players of a request
MaxTradeOuts == 3

(***************************************************************************)
(* Sequence helpers.                                                       *)
(***************************************************************************)
Range(s) == { s[k] : k \in DOMAIN s }

Reverse(s) == [k \in 1..Len(s) |-> s[Len(s) + 1 - k]]

RECURSIVE SumOver(_, _)
\* sum(f(x) for x in s), f given as a function over the elements
SumOver(s, f) == IF s = << >> THEN 0 ELSE f[Head(s)] + SumOver(Tail(s), f)

\* [x for x in s if x in keep]: the kept elements in their order in s
FilterSeq(s, keep) ==
    LET idx == { k \in DOMAIN s : s[k] \in keep }
    IN  [j \in 1..Cardinality(idx) |->
           s[CHOOSE k \in idx : Cardinality({ m \in idx : m < k }) = j - 1]]

Prefix(s, n) == IF Len(s) <= n THEN s ELSE SubSeq(s, 1, n)

(***************************************************************************)
(* get_price_bracket, meets_level_requirements, calculate_player_priority  *)
(***************************************************************************)
\* get_price_bracket returns None: no bracket
NoBracket == 0

\* the bracket list with bracket 2 starting one dollar late
bracketsWithGap ==
    << <<250000, 317500>>, <<317502, 385000>>, <<385001, 452500>>,
       <<452501, 520000>>, <<520001, 587500>>, <<587501, 655000>>,
       <<655001, 722500>>, <<722501, 790000>>, <<790001, 857500>> >>

\* the list `brackets`: (min_price, max_price) of bracket 1..9
brackets ==
    << <<250000, 317500>>, <<317501, 385000>>, <<385001, 452500>>,
       <<452501, 520000>>, <<520001, 587500>>, <<587501, 655000>>,
       <<655001, 722500>>, <<722501, 790000>>, <<790001, 857500>> >>

RECURSIVE BracketFrom(_, _)
\* the for loop of get_price_bracket from list index k on
BracketFrom(price, k) ==
    IF k > Len(brackets) THEN NoBracket
    ELSE IF brackets[k][1] <= price /\ price <= brackets[k][2] THEN k
         ELSE BracketFrom(price, k + 1)

get_price_bracket(price) == BracketFrom(price, 1)

\* the if/elif chain of meets_level_requirements, thresholds in thousandths
LevelTable(diff, bracket, level) ==
    CASE level \notin 1..10 -> FALSE
       [] level = 1 ->
               (bracket = 1 /\ diff >= 32500)
            \/ (bracket = 2 /\ 29580 <= diff /\ diff <= 32490)
            \/ (bracket = 3 /\ 26670 <= diff /\ diff <= 29570)
            \/ (bracket = 4 /\ 23750 <= diff /\ diff <= 26660)
            \/ (bracket = 5 /\ 20830 <= diff /\ diff <= 23740)
            \/ (bracket = 6 /\ 17920 <= diff /\ diff <= 20820)
            \/ (bracket = 7 /\ 15000 <= diff /\ diff <= 17910)
            \/ (bracket = 8 /\ 12080 <= diff /\ diff <= 14990)
            \/ (bracket = 9 /\ 9170 <= diff /\ diff <= 12070)
       [] level = 2 ->
               (bracket = 1 /\ 29580 <= diff /\ diff <= 32490)
            \/ (bracket = 2 /\ 26670 <= diff /\ diff <= 29570)
            \/ (bracket = 3 /\ 23750 <= diff /\ diff <= 26660)
            \/ (bracket = 4 /\ 20830 <= diff /\ diff <= 23740)
            \/ (bracket = 5 /\ 17920 <= diff /\ diff <= 20820)
            \/ (bracket = 6 /\ 15000 <= diff /\ diff <= 17910)
            \/ (bracket = 7 /\ 12080 <= diff /\ diff <= 14990)
            \/ (bracket = 8 /\ 9170 <= diff /\ diff <= 12070)
            \/ (bracket = 9 /\ 7800 <= diff /\ diff <= 9160)
       [] level = 3 ->
               (bracket = 1 /\ 26670 <= diff /\ diff <= 29570)
            \/ (bracket = 2 /\ 23750 <= diff /\ diff <= 26660)
            \/ (bracket = 3 /\ 20830 <= diff /\ diff <= 23740)
            \/ (bracket = 4 /\ 17920 <= diff /\ diff <= 20820)
            \/ (bracket = 5 /\ 15000 <= diff /\ diff <= 17910)
            \/ (bracket = 6 /\ 12080 <= diff /\ diff <= 14990)
            \/ (bracket = 7 /\ 9170 <= diff /\ diff <= 12070)
            \/ (bracket = 8 /\ 7800 <= diff /\ diff <= 9160)
       [] level = 4 ->
               (bracket = 1 /\ 23750 <= diff /\ diff <= 26660)
            \/ (bracket = 2 /\ 20830 <= diff /\ diff <= 23740)
            \/ (bracket = 3 /\ 17920 <= diff /\ diff <= 20820)
            \/ (bracket = 4 /\ 15000 <= diff /\ diff <= 17910)
            \/ (bracket = 5 /\ 12080 <= diff /\ diff <= 14990)
            \/ (bracket = 6 /\ 9170 <= diff /\ diff <= 12070)
            \/ (bracket = 7 /\ 7800 <= diff /\ diff <= 9160)
       [] level = 5 ->
               (bracket = 1 /\ 20830 <= diff /\ diff <= 23740)
            \/ (bracket = 2 /\ 17920 <= diff /\ diff <= 20820)
            \/ (bracket = 3 /\ 15000 <= diff /\ diff <= 17910)
            \/ (bracket = 4 /\ 12080 <= diff /\ diff <= 14990)
            \/ (bracket = 5 /\ 9170 <= diff /\ diff <= 12070)
            \/ (bracket = 6 /\ 7800 <= diff /\ diff <= 9160)
       [] level = 6 ->
               (bracket = 1 /\ 17920 <= diff /\ diff <= 20820)
            \/ (bracket = 2 /\ 15000 <= diff /\ diff <= 17910)
            \/ (bracket = 3 /\ 12080 <= diff /\ diff <= 14990)
            \/ (bracket = 4 /\ 9170 <= diff /\ diff <= 12070)
            \/ (bracket = 5 /\ 7800 <= diff /\ diff <= 9160)
       [] level = 7 ->
               (bracket = 1 /\ 15000 <= diff /\ diff <= 17910)
            \/ (bracket = 2 /\ 12080 <= diff /\ diff <= 14990)
            \/ (bracket = 3 /\ 9170 <= diff /\ diff <= 12070)
            \/ (bracket = 4 /\ 7800 <= diff /\ diff <= 9160)
       [] level = 8 ->
               (bracket = 1 /\ 12080 <= diff /\ diff <= 14990)
            \/ (bracket = 2 /\ 9170 <= diff /\ diff <= 12070)
            \/ (bracket = 3 /\ 7800 <= diff /\ diff <= 9160)
       [] level = 9 ->
               (bracket = 1 /\ 9170 <= diff /\ diff <= 12070)
            \/ (bracket = 2 /\ 7800 <= diff /\ diff <= 9160)
       [] level = 10 ->
               (bracket = 1 /\ 7800 <= diff /\ diff <= 9160)

\* level 10 without its upper limit
meets_level_requirements_open10(diff, price, level) ==
    LET bracket == get_price_bracket(price)
    IN  IF bracket = NoBracket THEN FALSE
        ELSE IF level = 10 THEN bracket = 1 /\ diff >= 7800
             ELSE LevelTable(diff, bracket, level)

meets_level_requirements(diff, price, level) ==
    LET bracket == get_price_bracket(price)
    IN  IF bracket = NoBracket THEN FALSE
        ELSE LevelTable(diff, bracket, level)

NoPriority == << >>

RECURSIVE PriorityFromNineLevels(_, _)
\* the level loop written range(1, 10): level 10 is never tried
PriorityFromNineLevels(player, level) ==
    IF level > 9 THEN NoPriority
    ELSE IF meets_level_requirements(player.Diff, player.Price, level)
         THEN <<level, get_price_bracket(player.Price),
                player.bye_round_grade, player.Diff>>
         ELSE PriorityFromNineLevels(player, level + 1)

RECURSIVE PriorityFrom(_, _)
\* the loop `for level in range(1, 11)` of calculate_player_priority
PriorityFrom(player, level) ==
    IF level > 10 THEN NoPriority
    ELSE IF meets_level_requirements(player.Diff, player.Price, level)
         THEN <<level, get_price_bracket(player.Price),
                player.bye_round_grade, player.Diff>>
         ELSE PriorityFrom(player, level + 1)

\* The key is <<level, bracket, grade, diff>>; the code negates the last two,
\* which PriorityLess accounts for.  NoPriority stands for None.
calculate_player_priority(player) ==
    IF player.Diff < 7800 THEN NoPriority
    ELSE PriorityFrom(player, 1)

(***************************************************************************)
(* Position requirements: has_valid_position, is_valid_trade_combo         *)
(***************************************************************************)
\* position_mapping[player['Player']]: POS1, then POS2 when it is not missing
position_mapping(player) ==
    IF player.POS2 = "" THEN <<player.POS1>> ELSE <<player.POS1, player.POS2>>

has_valid_position(player, valid_positions) ==
    \E k \in DOMAIN position_mapping(player) :
        position_mapping(player)[k] \in Range(valid_positions)

all_positions == <<"HOK", "MID", "EDG", "HLF", "CTR", "WFB">>

\* the required_positions lists that are not empty, in request order
RECURSIVE CollectRequirements(_)
CollectRequirements(reqs) ==
    IF reqs = << >> THEN << >>
    ELSE IF Head(reqs).required_positions # << >>
         THEN <<Head(reqs).required_positions>> \o CollectRequirements(Tail(reqs))
         ELSE CollectRequirements(Tail(reqs))

\* any(pos in position_mapping[player] for pos in req_positions)
CanSatisfy(player, req_positions) ==
    \E k \in DOMAIN req_positions :
        req_positions[k] \in Range(position_mapping(player))

\* index of the last requirement the player can satisfy, 0 if none
LastMatch(player, unsatisfied, k) ==
    IF \E n \in k..Len(unsatisfied) : CanSatisfy(player, unsatisfied[n])
    THEN CHOOSE n \in k..Len(unsatisfied) :
             /\ CanSatisfy(player, unsatisfied[n])
             /\ \A m \in (n + 1)..Len(unsatisfied) : ~CanSatisfy(player, unsatisfied[m])
    ELSE 0

RECURSIVE FirstMatch(_, _, _)
\* index of the first requirement from k on that the player can satisfy, 0 if none
FirstMatch(player, unsatisfied, k) ==
    IF k > Len(unsatisfied) THEN 0
    ELSE IF CanSatisfy(player, unsatisfied[k]) THEN k
         ELSE FirstMatch(player, unsatisfied, k + 1)

RemoveAt(s, k) == SubSeq(s, 1, k - 1) \o SubSeq(s, k + 1, Len(s))

\* a requirement is met by any player of the combination, one player
\* meeting as many requirements as it can
GreedyAssignShared(player_combo, k, unsatisfied, used) ==
    LET left == { n \in DOMAIN unsatisfied :
                    ~\E m \in DOMAIN player_combo :
                        CanSatisfy(player_combo[m], unsatisfied[n]) }
    IN  IF left = {} THEN << >> ELSE <<unsatisfied[CHOOSE n \in left : TRUE]>>

RECURSIVE GreedyAssign(_, _, _, _)
\* the loop over player_combo from index k on; yields the requirements left
GreedyAssign(player_combo, k, unsatisfied, used) ==
    IF k > Len(player_combo) THEN unsatisfied
    ELSE LET trade_in_player == player_combo[k]
             m == FirstMatch(trade_in_player, unsatisfied, 1)
         IN  IF trade_in_player.Player \in used
             THEN GreedyAssign(player_combo, k + 1, unsatisfied, used)
             ELSE IF m = 0
                  THEN GreedyAssign(player_combo, k + 1, unsatisfied, used)
                  ELSE GreedyAssign(player_combo, k + 1, RemoveAt(unsatisfied, m),
                                    used \cup {trade_in_player.Player})

\* new format: traded_out_positions is a list of dicts (per-player requirements)
ValidPerPlayer(player_combo, reqs) ==
    IF \E k \in DOMAIN player_combo :
           ~has_valid_position(player_combo[k], all_positions)
    THEN FALSE
    ELSE LET unsatisfied_requirements == CollectRequirements(reqs)
         IN  IF unsatisfied_requirements = << >> THEN TRUE
             ELSE GreedyAssign(player_combo, 1, unsatisfied_requirements, {}) = << >>

\* old format: traded_out_positions is a flat list of position codes
ValidLegacy(player_combo, codes) ==
    IF \E k \in DOMAIN player_combo : ~has_valid_position(player_combo[k], codes)
    THEN FALSE
    ELSE LET positions_covered ==
                 { pos \in Range(codes) :
                     \E k \in DOMAIN player_combo :
                         pos \in Range(position_mapping(player_combo[k])) }
         IN  Range(codes) = positions_covered

\* tops stands for the argument traded_out_positions: format "dict" is a list
\* of dicts, held in items; format "list" is a list of position codes, held
\* in codes.  The format is what isinstance(traded_out_positions[0], dict) tells.
RequirementsGiven(tops) ==
    IF tops.format = "dict" THEN tops.items # << >> ELSE tops.codes # << >>

is_valid_trade_combo(player_combo, tops) ==
    IF ~RequirementsGiven(tops) THEN TRUE
    ELSE IF tops.format = "dict" THEN ValidPerPlayer(player_combo, tops.items)
         ELSE ValidLegacy(player_combo, tops.codes)

(***************************************************************************)
(* list.sort as the generator uses it.  lt[a][b] says that the key of      *)
(* element a is less than the key of element b; elements are named by      *)
(* their index in the list being sorted.  The lists are shorter than 64,   *)
(* so the sort is one run found by count_run followed by binary insertion, *)
(* which is stable; reverse=True reverses before and after.                *)
(***************************************************************************)
RECURSIVE RunLength(_, _, _, _)
RunLength(idx, lt, k, descending) ==
    IF k >= Len(idx) THEN k
    ELSE IF lt[idx[k + 1]][idx[k]] = descending
         THEN RunLength(idx, lt, k + 1, descending)
         ELSE k

RECURSIVE BinarySearch(_, _, _, _, _)
BinarySearch(idx, lt, pivot, l, r) ==
    IF l >= r THEN l
    ELSE LET p == l + ((r - l) \div 2)
         IN  IF lt[pivot][idx[p]] THEN BinarySearch(idx, lt, pivot, l, p)
             ELSE BinarySearch(idx, lt, pivot, p + 1, r)

RECURSIVE BinaryInsertion(_, _, _)
BinaryInsertion(idx, lt, start) ==
    IF start > Len(idx) THEN idx
    ELSE LET pivot == idx[start]
             l == BinarySearch(idx, lt, pivot, 1, start)
         IN  BinaryInsertion(SubSeq(idx, 1, l - 1) \o <<pivot>>
                                 \o SubSeq(idx, l, start - 1)
                                 \o SubSeq(idx, start + 1, Len(idx)),
                             lt, start + 1)

\* the permutation list.sort produces: result[k] is the index of the element
\* that ends at place k
SortedIndices(n, lt, reverse) ==
    LET idx0 == IF reverse THEN [k \in 1..n |-> n + 1 - k] ELSE [k \in 1..n |-> k]
        descending == n >= 2 /\ lt[idx0[2]][idx0[1]]
        run == IF n <= 1 THEN n ELSE RunLength(idx0, lt, 2, descending)
        idx1 == IF descending
                THEN Reverse(SubSeq(idx0, 1, run)) \o SubSeq(idx0, run + 1, n)
                ELSE idx0
        sorted == BinaryInsertion(idx1, lt, run + 1)
    IN  IF reverse THEN Reverse(sorted) ELSE sorted

\* s.sort(key=..., reverse=...), the key order given as key[a] < key[b] over integers
SortByKey(s, key, reverse) ==
    LET lt == [a \in DOMAIN s |-> [b \in DOMAIN s |-> key[a] < key[b]]]
        perm == SortedIndices(Len(s), lt, reverse)
    IN  [k \in DOMAIN s |-> s[perm[k]]]

\* a sort that leaves equal keys in the reverse of their input order
SortByLessTiesReversed(s, lt) ==
    LET n == Len(s)
        ltr == [a \in DOMAIN s |-> [b \in DOMAIN s |-> lt[n + 1 - a][n + 1 - b]]]
        perm == SortedIndices(n, ltr, FALSE)
    IN  [k \in DOMAIN s |-> s[n + 1 - perm[k]]]

\* s.sort(key=...) with the order of the keys given as a relation
SortByLess(s, lt) ==
    LET perm == SortedIndices(Len(s), lt, FALSE)
    IN  [k \in DOMAIN s |-> s[perm[k]]]

\* tuple order of two calculate_player_priority keys
\* (level, bracket, -bye_grade, -diff); a missing grade is NaN, which is
\* neither equal to nor less than anything
PriorityLess(a, b) ==
    IF a[1] # b[1] THEN a[1] < b[1]
    ELSE IF a[2] # b[2] THEN a[2] < b[2]
    ELSE IF a[3] = 0 \/ b[3] = 0 THEN FALSE
    ELSE IF a[3] # b[3] THEN a[3] > b[3]
    ELSE a[4] > b[4]

(***************************************************************************)
(* The dataset: consolidated_data, one row per player and round, in row    *)
(* order.  Round 2 is the latest round.  R1 and R2 are roster players who  *)
(* were not selected in it (Projection 0); G is a roster player who was.   *)
(* H played in round 1 only.  A changed team after round 1, and B's Team   *)
(* is missing in round 2.                                                  *)
(***************************************************************************)
Row(name, pos1, pos2, price, diff, projection, grade) ==
    [Player |-> name, POS1 |-> pos1, POS2 |-> pos2, Price |-> price,
     Diff |-> diff, Projection |-> projection, bye_round_grade |-> grade]

\* a missing Team (NaN / None)
NoTeam == ""

\* a row of consolidated_data: the columns of Row with Round and Team
DataRow(round, team, row) ==
    [Round |-> round, Team |-> team,
     Player |-> row.Player, POS1 |-> row.POS1, POS2 |-> row.POS2,
     Price |-> row.Price, Diff |-> row.Diff, Projection |-> row.Projection,
     bye_round_grade |-> row.bye_round_grade]

consolidated_data ==
    << DataRow(1, "PAR",  Row("A",  "HOK", "",    350000,  9000, 50, 3)),
       DataRow(1, "MEL",  Row("B",  "MID", "",    450000,  8000, 60, 0)),
       DataRow(1, "BRI",  Row("H",  "HOK", "",    200000,  9000, 48, 2)),
       DataRow(2, "MEL",  Row("A",  "HOK", "",    400000, 10000, 50, 3)),
       DataRow(2, NoTeam, Row("B",  "MID", "",    450000,  8000, 60, 0)),
       DataRow(2, "BRI",  Row("C",  "MID", "EDG", 900000, 12000, 70, 4)),
       DataRow(2, "NEW",  Row("D",  "MID", "",    300000, 33000, 40, 2)),
       DataRow(2, "PAR",  Row("E",  "HOK", "",    300000,  7000, 55, 4)),
       DataRow(2, "MEL",  Row("G",  "HOK", "MID", 300000,  8000, 45, 1)),
       DataRow(2, "PAR",  Row("R1", "HOK", "",    400000,  1000,  0, 2)),
       DataRow(2, "NEW",  Row("R2", "MID", "",    450000,  2000,  0, 2)) >>

\* consolidated_data['Round'].max()
latest_round ==
    CHOOSE r \in { consolidated_data[k].Round : k \in DOMAIN consolidated_data } :
        \A k \in DOMAIN consolidated_data : consolidated_data[k].Round <= r

\* the rows of the latest round
Dataset ==
    FilterSeq(consolidated_data,
              { r \in Range(consolidated_data) : r.Round = latest_round })

DatasetNames == { Dataset[k].Player : k \in DOMAIN Dataset }

\* every name of consolidated_data
AllNames == { consolidated_data[k].Player : k \in DOMAIN consolidated_data }

\* consolidated_data[consolidated_data['Player'] == name]
\*     .sort_values('Round', ascending=False)
\* (a player has one row per round, so the order is determined by Round)
RowsOfTable ==
    [name \in AllNames |->
       LET rows == FilterSeq(consolidated_data,
                             { r \in Range(consolidated_data) : r.Player = name })
       IN  SortByKey(rows, [k \in DOMAIN rows |-> rows[k].Round], TRUE)]

RowsOf(name) == IF name \in AllNames THEN RowsOfTable[name] ELSE << >>

(***************************************************************************)
(* Lockout: FIXTURES, get_locked_out_players, is_player_locked.  A time is *)
(* <<day, hour, minute>> of August 2025; << >> is no time (None or "").    *)
(***************************************************************************)
Fixture(day, hour, minute, teams) == [kickoff |-> <<day, hour, minute>>, teams |-> teams]

FIXTURES ==
    << Fixture(7, 19, 50, {"MEL", "BRI"}),
       Fixture(8, 18,  0, {"NEW", "PEN"}),
       Fixture(8, 20,  0, {"CAN", "MAN"}),
       Fixture(9, 15,  0, {"SGI", "CRO"}),
       Fixture(9, 17, 30, {"DOL", "SYD"}),
       Fixture(9, 19, 35, {"CBY", "WAR"}),
       Fixture(10, 14, 0, {"GLD", "SOU"}),
       Fixture(10, 16, 5, {"PAR", "NQL"}) >>

NoDatetime == << >>

\* datetime.strptime: the parsed time as minutes, the order of datetime
Minutes(dt) == (dt[1] * 24 + dt[2]) * 60 + dt[3]

\* the teams whose fixture_dt <= simulate_dt
locked_out_teams(simulate_datetime) ==
    UNION { FIXTURES[k].teams : k \in
              { f \in DOMAIN FIXTURES :
                  Minutes(FIXTURES[f].kickoff) <= Minutes(simulate_datetime) } }

\* sort_values('Round').groupby('Player').last(): per column the last value
\* that is not missing, so Team is the latest Team a row of the player has
LastTeamTable ==
    [name \in AllNames |->
       IF \A k \in DOMAIN RowsOfTable[name] : RowsOfTable[name][k].Team = NoTeam
       THEN NoTeam
       ELSE RowsOfTable[name][CHOOSE k \in DOMAIN RowsOfTable[name] :
                /\ RowsOfTable[name][k].Team # NoTeam
                /\ \A m \in 1..(k - 1) : RowsOfTable[name][m].Team = NoTeam].Team]

LastTeam(name) == LastTeamTable[name]

get_locked_out_players(simulate_datetime) ==
    IF simulate_datetime = NoDatetime THEN {}
    ELSE { name \in AllNames : LastTeam(name) \in locked_out_teams(simulate_datetime) }

is_player_locked(player_name, simulate_datetime) ==
    IF simulate_datetime = NoDatetime THEN FALSE
    ELSE IF player_name \notin AllNames THEN FALSE
    ELSE LastTeam(player_name) \in locked_out_teams(simulate_datetime)

(***************************************************************************)
(* The request: the arguments of calculate_trade_options.                  *)
(***************************************************************************)
\* player_dict.get('price') is None
NoPrice == -1

TradeOut(name, price, slot, tip) ==
    [name |-> name, price |-> price, slot_position |-> slot,
     trade_in_positions |-> tip]

\* the traded-out players a request may name; "X" is not in the dataset
TradeOutChoices ==
    { TradeOut("R1", NoPrice, "HOK", << >>),
      TradeOut("R2", 450000,  "INT", <<"MID">>),
      TradeOut("G",  300000,  "EMG", <<"HOK", "MID">>),
      TradeOut("X",  NoPrice, "INT", << >>) }

\* lists of distinct traded-out players, 1..MaxTradeOuts long
TradeOutLists ==
    { t \in UNION { [1..n -> TradeOutChoices] : n \in 1..MaxTradeOuts } :
        \A a, b \in DOMAIN t : a # b => t[a].name # t[b].name }

CashChoices == {0, 50000}

MaxOptionsChoices == {2, 10}

(***************************************************************************)
(* get_traded_out_positions and the budget of calculate_trade_options      *)
(***************************************************************************)
RequiredPositions(player) ==
    IF player.trade_in_positions # << >> THEN player.trade_in_positions
    ELSE IF player.slot_position # "" /\ player.slot_position \notin {"INT", "EMG"}
         THEN IF RowsOf(player.name) # << >>
              THEN <<RowsOf(player.name)[1].POS1>>
              ELSE << >>
         ELSE << >>

get_traded_out_positions(traded_out) ==
    [format |-> "dict",
     items  |-> [k \in DOMAIN traded_out |->
                   [player_name |-> traded_out[k].name,
                    required_positions |-> RequiredPositions(traded_out[k])]],
     codes  |-> << >>]

\* the price one traded-out player adds to salary_freed
TradedOutPrice(player) ==
    IF player.price # NoPrice THEN player.price
    ELSE IF RowsOf(player.name) # << >> THEN RowsOf(player.name)[1].Price
         ELSE 0

SalaryFreed(traded_out, cash_in_bank) ==
    cash_in_bank + SumOver(traded_out, [t \in Range(traded_out) |-> TradedOutPrice(t)])

(***************************************************************************)
(* The candidate filters of calculate_trade_options                        *)
(***************************************************************************)
\* line 824: positions_to_use = None, whatever allowed_positions is
positions_to_use(allowed_positions) == {}

\* lines 862-872: latest round, not traded out, with a projection
IsSelected(req, r) ==
    /\ r.Round = latest_round
    /\ \A k \in DOMAIN req.traded_out_players : r.Player # req.traded_out_players[k].name
    /\ r.Projection # 0

\* lines 875-876
NotExcluded(req, r) == req.excluded_players # {} => r.Player \notin req.excluded_players

\* lines 882-883
InTeamList(req, r) == req.team_list # {} => r.Player \in req.team_list

\* lines 818-820 and 889-890
NotLockedOut(req, r) ==
    req.apply_lockout => r.Player \notin get_locked_out_players(req.simulate_datetime)

\* lines 896-902
PositionAllowed(req, r) ==
    positions_to_use(req.allowed_positions) # {} =>
        \/ r.POS1 \in positions_to_use(req.allowed_positions)
        \/ r.POS2 \in positions_to_use(req.allowed_positions)

\* The filters are applied one after the other, each to the rows the one
\* before it kept: the rows left after a filter are the rows of
\* consolidated_data, in their order, that pass it and every filter before it.
Selected(req) ==
    FilterSeq(consolidated_data,
              { r \in Range(consolidated_data) : IsSelected(req, r) })

AfterExcluded(req) ==
    FilterSeq(consolidated_data,
              { r \in Range(consolidated_data) :
                  IsSelected(req, r) /\ NotExcluded(req, r) })

AfterTeamList(req) ==
    FilterSeq(consolidated_data,
              { r \in Range(consolidated_data) :
                  IsSelected(req, r) /\ NotExcluded(req, r) /\ InTeamList(req, r) })

\* the lockout restriction left out
AfterLockoutSkipped(req) == AfterTeamList(req)

AfterLockout(req) ==
    FilterSeq(consolidated_data,
              { r \in Range(consolidated_data) :
                  /\ IsSelected(req, r) /\ NotExcluded(req, r)
                  /\ InTeamList(req, r) /\ NotLockedOut(req, r) })

AfterPositions(req) ==
    FilterSeq(AfterLockout(req),
              { r \in Range(consolidated_data) : PositionAllowed(req, r) })

\* the candidates left by the filters of lines 862-905
AvailablePlayers(req) == AfterPositions(req)

\* one of the filters emptied the pool: return []
FilterReturnsEmpty(req) ==
    \/ req.excluded_players # {} /\ AfterExcluded(req) = << >>
    \/ req.team_list # {} /\ AfterTeamList(req) = << >>
    \/ req.apply_lockout /\ AfterLockout(req) = << >>
    \/ positions_to_use(req.allowed_positions) # {} /\ AfterPositions(req) = << >>

(***************************************************************************)
(* bye_analyser.apply_bye_weighting.  A candidate is a record with the     *)
(* keys is_injured, non_playing, bye_round_grade, diff and projection.     *)
(***************************************************************************)
\* _safe_grade: 0 for a grade int() rejects (None, NaN: the missing grade,
\* written 0 in this model), int(value) for an integer grade
safe_grade(value) == IF value = 0 THEN 0 ELSE value

\* _value_score
ByeValue(candidate, strategy) ==
    IF strategy = "2" THEN candidate.projection ELSE candidate.diff

\* lines 59-72: the candidate with its _bye_sort payload
Payload(candidate, strategy) ==
    [candidate |-> candidate,
     bye_sort  |-> [is_injured  |-> candidate.is_injured,
                    non_playing |-> candidate.non_playing,
                    grade       |-> safe_grade(candidate.bye_round_grade),
                    value       |-> ByeValue(candidate, strategy)]]

RECURSIVE LexLess(_, _)
\* a < b for two tuples of integers of one length
LexLess(a, b) ==
    IF a = << >> THEN FALSE
    ELSE IF Head(a) # Head(b) THEN Head(a) < Head(b)
         ELSE LexLess(Tail(a), Tail(b))

\* not x as a sort key: False before True
NotAsKey(x) == IF x THEN 0 ELSE 1

\* the trade_out key with the raw grade: an unknown grade (0) sorts first
TradeOutKeyRawGrade(c) ==
    << NotAsKey(c.bye_sort.is_injured),
       NotAsKey(c.bye_sort.non_playing),
       c.bye_sort.grade,
       c.bye_sort.value >>

\* lines 76-81
TradeOutKey(c) ==
    << NotAsKey(c.bye_sort.is_injured),
       NotAsKey(c.bye_sort.non_playing),
       IF c.bye_sort.grade > 0 THEN c.bye_sort.grade ELSE 5,
       c.bye_sort.value >>

\* lines 90-93
TradeInKey(c) == << 0 - c.bye_sort.grade, 0 - c.bye_sort.value >>

\* the trade_in filter that only drops the injured
TradeInKeptIfNotInjured(weighted) ==
    FilterSeq(weighted, { c \in Range(weighted) : ~c.bye_sort.is_injured })

\* lines 84-86
TradeInKept(weighted) ==
    FilterSeq(weighted,
              { c \in Range(weighted) :
                  ~c.bye_sort.is_injured /\ ~c.bye_sort.non_playing })

apply_bye_weighting(candidates, mode, strategy) ==
    LET weighted == [k \in DOMAIN candidates |-> Payload(candidates[k], strategy)]
        sorted ==
            IF mode = "trade_out"
            THEN SortByLess(weighted,
                     [a \in DOMAIN weighted |-> [b \in DOMAIN weighted |->
                         LexLess(TradeOutKey(weighted[a]), TradeOutKey(weighted[b]))]])
            ELSE LET filtered == TradeInKept(weighted)
                 IN  SortByLess(filtered,
                         [a \in DOMAIN filtered |-> [b \in DOMAIN filtered |->
                             LexLess(TradeInKey(filtered[a]), TradeInKey(filtered[b]))]])
    IN  [k \in DOMAIN sorted |-> sorted[k].candidate]

\* lines 911-922: the candidate dict of a row; the rows have no is_injured
\* and no non_playing column
Candidate(row) ==
    [row |-> row, diff |-> row.Diff, projection |-> row.Projection,
     bye_round_grade |-> row.bye_round_grade,
     is_injured |-> FALSE, non_playing |-> FALSE]

\* lines 907-936: drop the rows without a grade, then weight
ByeWeighted(available, strategy) ==
    LET graded == FilterSeq(available, { r \in Range(available) : r.bye_round_grade # 0 })
        weighted == apply_bye_weighting([k \in DOMAIN graded |-> Candidate(graded[k])],
                                        "trade_in", strategy)
    IN  [k \in DOMAIN weighted |-> weighted[k].row]

(***************************************************************************)
(* generate_trade_options: the pre-sort                                    *)
(***************************************************************************)
maximize_base == request.strategy = "2"
hybrid_approach == request.strategy = "3"

\* the hybrid pre-sort: drop the players without a priority, sort by priority
HybridSorted(ps) ==
    LET valid_players ==
            FilterSeq(ps, { r \in Range(ps) : calculate_player_priority(r) # NoPriority })
        lt == [a \in DOMAIN valid_players |-> [b \in DOMAIN valid_players |->
                 PriorityLess(calculate_player_priority(valid_players[a]),
                              calculate_player_priority(valid_players[b]))]]
    IN  SortByLess(valid_players, lt)

PreSorted(ps, strategy, target_bye_round) ==
    IF target_bye_round THEN ps
    ELSE IF strategy = "2"
         THEN SortByKey(ps, [k \in DOMAIN ps |-> ps[k].Projection], TRUE)
         ELSE IF strategy = "3" THEN HybridSorted(ps)
              ELSE SortByKey(ps, [k \in DOMAIN ps |-> ps[k].Diff], TRUE)

\* a combination whose total_diff is its first player's Diff
create_combination_first_diff(ps, total_price, budget) ==
    [players          |-> ps,
     total_price      |-> total_price,
     total_projection |-> SumOver(ps, [r \in Range(ps) |-> r.Projection]),
     total_diff       |-> ps[1].Diff,
     salary_remaining |-> budget - total_price]

create_combination(ps, total_price, budget) ==
    [players          |-> ps,
     total_price      |-> total_price,
     total_projection |-> SumOver(ps, [r \in Range(ps) |-> r.Projection]),
     total_diff       |-> SumOver(ps, [r \in Range(ps) |-> r.Diff]),
     salary_remaining |-> budget - total_price]

(***************************************************************************)
(* generate_trade_options: the inner scans for the second player.  Each    *)
(* yields the index of best_second_player in `players`, 0 for None.        *)
(***************************************************************************)
\* a pair's price taken from its first player alone
PairPriceFirstOnly(a, b) == players[a].Price

\* a pair's price taken as the price of its cheaper player
PairPriceCheaper(a, b) ==
    IF players[a].Price <= players[b].Price THEN players[a].Price ELSE players[b].Price

PairPrice(a, b) == players[a].Price + players[b].Price

\* no position check on a pair
PairValidAlways(a, b) == TRUE

\* the position check made on the first player alone
PairValidFirstOnly(a, b) == is_valid_trade_combo(<<players[a]>>, traded_out_positions)

PairValid(a, b) == is_valid_trade_combo(<<players[a], players[b]>>, traded_out_positions)

\* second_player_candidates.index(second_player)
IndexOf(ps, x) == CHOOSE k \in DOMAIN ps : ps[k] = x /\ \A m \in 1..(k - 1) : ps[m] # x

RECURSIVE ProjectionScanLatest(_, _)
\* the projection scan that, with bye targeting, prefers the later candidate
ProjectionScanLatest(j, best_j) ==
    IF j > Len(players) THEN best_j
    ELSE IF j = i \/ players[j].Player \in used_players
         THEN ProjectionScanLatest(j + 1, best_j)
    ELSE IF ~PairValid(i, j) THEN ProjectionScanLatest(j + 1, best_j)
    ELSE IF PairPrice(i, j) <= salary_freed
         THEN LET new_best == IF best_j = 0 \/ (request.target_bye_round /\ j > best_j)
                              THEN j ELSE best_j
              IN  IF ~request.target_bye_round THEN new_best
                  ELSE ProjectionScanLatest(j + 1, new_best)
         ELSE ProjectionScanLatest(j + 1, best_j)

RECURSIVE ProjectionScan(_, _)
\* lines 632-652, from j on, with best_j so far
ProjectionScan(j, best_j) ==
    IF j > Len(players) THEN best_j
    ELSE IF j = i \/ players[j].Player \in used_players
         THEN ProjectionScan(j + 1, best_j)
    ELSE IF ~PairValid(i, j) THEN ProjectionScan(j + 1, best_j)
    ELSE IF PairPrice(i, j) <= salary_freed
         THEN LET new_best == IF best_j = 0 \/ (request.target_bye_round /\ j < best_j)
                              THEN j ELSE best_j
              IN  IF ~request.target_bye_round THEN new_best
                  ELSE ProjectionScan(j + 1, new_best)
         ELSE ProjectionScan(j + 1, best_j)

RECURSIVE HybridScan(_, _)
\* lines 678-695, from j on, with best_j so far
HybridScan(j, best_j) ==
    IF j > Len(players) THEN best_j
    ELSE IF players[j].Player = players[i].Player \/ players[j].Player \in used_players
         THEN HybridScan(j + 1, best_j)
    ELSE IF ~PairValid(i, j) THEN HybridScan(j + 1, best_j)
    ELSE IF PairPrice(i, j) <= salary_freed
         THEN LET new_best ==
                      IF best_j = 0
                         \/ (request.target_bye_round
                             /\ IndexOf(players, players[j]) < IndexOf(players, players[best_j]))
                      THEN j ELSE best_j
              IN  IF ~request.target_bye_round THEN new_best
                  ELSE HybridScan(j + 1, new_best)
         ELSE HybridScan(j + 1, best_j)

RECURSIVE ValueScanLastTie(_, _, _)
\* the value scan with >= for >: among equal totals the last candidate wins
ValueScanLastTie(j, best_j, best_total_diff) ==
    IF j > Len(players) THEN best_j
    ELSE IF j = i \/ players[j].Player \in used_players
         THEN ValueScanLastTie(j + 1, best_j, best_total_diff)
    ELSE IF ~PairValid(i, j) THEN ValueScanLastTie(j + 1, best_j, best_total_diff)
    ELSE IF PairPrice(i, j) <= salary_freed
         THEN LET total_diff == players[i].Diff + players[j].Diff
              IN  IF best_j = 0 \/ total_diff >= best_total_diff
                  THEN ValueScanLastTie(j + 1, j, total_diff)
                  ELSE ValueScanLastTie(j + 1, best_j, best_total_diff)
         ELSE ValueScanLastTie(j + 1, best_j, best_total_diff)

RECURSIVE ValueScan(_, _, _)
\* lines 719-737, from j on, with best_j and best_total_diff so far
ValueScan(j, best_j, best_total_diff) ==
    IF j > Len(players) THEN best_j
    ELSE IF j = i \/ players[j].Player \in used_players
         THEN ValueScan(j + 1, best_j, best_total_diff)
    ELSE IF ~PairValid(i, j) THEN ValueScan(j + 1, best_j, best_total_diff)
    ELSE IF PairPrice(i, j) <= salary_freed
         THEN LET total_diff == players[i].Diff + players[j].Diff
              IN  IF best_j = 0 \/ total_diff > best_total_diff
                  THEN ValueScan(j + 1, j, total_diff)
                  ELSE ValueScan(j + 1, best_j, best_total_diff)
         ELSE ValueScan(j + 1, best_j, best_total_diff)

(***************************************************************************)
(* The state machine: one call of calculate_trade_options.                 *)
(***************************************************************************)
\* requests that leave allowed_positions, team_list, simulate_datetime and
\* apply_lockout at their defaults
Requests ==
    [traded_out_players : TradeOutLists,
     cash_in_bank       : CashChoices,
     strategy           : {"1", "2", "3"},
     target_bye_round   : BOOLEAN,
     excluded_players   : SUBSET {"A", "B", "C", "D", "E", "G"},
     max_options        : MaxOptionsChoices,
     allowed_positions  : {{}},
     team_list          : {{}},
     simulate_datetime  : {NoDatetime},
     apply_lockout      : {FALSE}]

\* no helper is called on its own during a request
NoProbe == [helper |-> "none"]
NoAnswer == [done |-> FALSE]

Init ==
    /\ request \in Requests
    /\ Len(AvailablePlayers(request)) <= MaxPool
    /\ pc = "called"
    /\ players = << >>
    /\ salary_freed = 0
    /\ traded_out_positions = [format |-> "dict", items |-> << >>, codes |-> << >>]
    /\ num_players_needed = 0
    /\ i = 1
    /\ used_players = {}
    /\ valid_combinations = << >>
    /\ result = << >>
    /\ probe = NoProbe
    /\ probe_out = NoAnswer

\* the pool after the filters and the bye weighting
Pool ==
    LET available == AvailablePlayers(request)
    IN  IF request.target_bye_round THEN ByeWeighted(available, request.strategy)
        ELSE available

\* calculate_trade_options returns [] before it reaches generate_trade_options
ReturnsEarly ==
    \/ FilterReturnsEmpty(request)
    \/ /\ request.target_bye_round
       /\ ByeWeighted(AvailablePlayers(request), request.strategy) = << >>

\* calculate_trade_options up to the call of generate_trade_options, and the
\* set-up of generate_trade_options up to the pre-sort
Calculate ==
    /\ pc = "called"
    /\ request.traded_out_players # << >>
    /\ ~ReturnsEarly
    /\ traded_out_positions' = get_traded_out_positions(request.traded_out_players)
    /\ num_players_needed' = Len(request.traded_out_players)
    /\ salary_freed' = SalaryFreed(request.traded_out_players, request.cash_in_bank)
    /\ players' = PreSorted(Pool, request.strategy, request.target_bye_round)
    /\ i' = 1
    /\ used_players' = {}
    /\ valid_combinations' = << >>
    /\ pc' = "search"
    /\ UNCHANGED <<request, result, probe, probe_out>>

CalculateEmpty ==
    /\ pc = "called"
    /\ request.traded_out_players # << >>
    /\ ReturnsEarly
    /\ traded_out_positions' = get_traded_out_positions(request.traded_out_players)
    /\ num_players_needed' = Len(request.traded_out_players)
    /\ salary_freed' = SalaryFreed(request.traded_out_players, request.cash_in_bank)
    /\ result' = << >>
    /\ pc' = "done"
    /\ UNCHANGED <<request, players, i, used_players, valid_combinations, probe, probe_out>>

\* line 835: full_traded_out_players[0] of an empty list raises IndexError,
\* before any filter is applied; nothing catches it in calculate_trade_options
CalculateRaises ==
    /\ pc = "called"
    /\ request.traded_out_players = << >>
    /\ pc' = "raised"
    /\ UNCHANGED <<request, players, salary_freed, traded_out_positions,
                   num_players_needed, i, used_players, valid_combinations, result,
                   probe, probe_out>>

\* the loop's break: enough combinations collected
LimitReached(combos) == Len(combos) >= request.max_options

\* an accepted combination whose players are not marked used
AcceptWithoutMarking(combo_players) ==
    LET total_price == SumOver(combo_players,
                               [r \in Range(combo_players) |-> r.Price])
        combo == create_combination(combo_players, total_price, salary_freed)
    IN  /\ valid_combinations' = Append(valid_combinations, combo)
        /\ used_players' = used_players
        /\ IF LimitReached(valid_combinations')
           THEN pc' = "sort" /\ i' = i
           ELSE pc' = "search" /\ i' = i + 1

\* one accepted combination: append, mark the players used, break or go on
Accept(combo_players) ==
    LET total_price == SumOver(combo_players,
                               [r \in Range(combo_players) |-> r.Price])
        combo == create_combination(combo_players, total_price, salary_freed)
    IN  /\ valid_combinations' = Append(valid_combinations, combo)
        /\ used_players' = used_players \cup { r.Player : r \in Range(combo_players) }
        /\ IF LimitReached(valid_combinations')
           THEN pc' = "sort" /\ i' = i
           ELSE pc' = "search" /\ i' = i + 1

\* an iteration that accepts nothing
Skip ==
    /\ i' = i + 1
    /\ UNCHANGED <<pc, used_players, valid_combinations>>

\* lines 608-618: one iteration of the single-player loop
SingleStep ==
    /\ pc = "search" /\ num_players_needed = 1 /\ i <= Len(players)
    /\ IF /\ players[i].Player \notin used_players
          /\ players[i].Price <= salary_freed
          /\ is_valid_trade_combo(<<players[i]>>, traded_out_positions)
       THEN Accept(<<players[i]>>)
       ELSE Skip
    /\ UNCHANGED <<request, players, salary_freed, traded_out_positions,
                   num_players_needed, result, probe, probe_out>>

\* what an iteration of a pair loop does with the second player it found
PairStep(best_j) ==
    IF best_j # 0 THEN Accept(<<players[i], players[best_j]>>)
    ELSE IF LimitReached(valid_combinations)
         THEN pc' = "sort" /\ UNCHANGED <<i, used_players, valid_combinations>>
         ELSE Skip

\* lines 621-662: one iteration of the projection loop
ProjectionStep ==
    /\ pc = "search" /\ num_players_needed # 1 /\ i <= Len(players)
    /\ maximize_base
    /\ IF players[i].Player \in used_players THEN Skip
       ELSE PairStep(ProjectionScan(1, 0))
    /\ UNCHANGED <<request, players, salary_freed, traded_out_positions,
                   num_players_needed, result, probe, probe_out>>

\* lines 664-706: one iteration of the hybrid loop
HybridStep ==
    /\ pc = "search" /\ num_players_needed # 1 /\ i <= Len(players)
    /\ ~maximize_base /\ hybrid_approach
    /\ IF players[i].Player \in used_players \/ players[i].Price > salary_freed
       THEN Skip
       ELSE LET best_j == HybridScan(1, 0)
            IN  IF best_j # 0 THEN Accept(<<players[i], players[best_j]>>) ELSE Skip
    /\ UNCHANGED <<request, players, salary_freed, traded_out_positions,
                   num_players_needed, result, probe, probe_out>>

\* lines 708-747: one iteration of the value loop
ValueStep ==
    /\ pc = "search" /\ num_players_needed # 1 /\ i <= Len(players)
    /\ ~maximize_base /\ ~hybrid_approach
    /\ IF players[i].Player \in used_players THEN Skip
       ELSE PairStep(ValueScan(1, 0, -1))
    /\ UNCHANGED <<request, players, salary_freed, traded_out_positions,
                   num_players_needed, result, probe, probe_out>>

\* the loop ran out of players
SearchEnd ==
    /\ pc = "search" /\ i > Len(players)
    /\ pc' = "sort"
    /\ UNCHANGED <<request, players, salary_freed, traded_out_positions,
                   num_players_needed, i, used_players, valid_combinations, result,
                   probe, probe_out>>

\* the combinations left in the order of their acceptance
FinalUnsorted(combos, strategy) == combos

\* lines 749-758: the final sort and the cut to max_options
FinalSorted(combos, strategy) ==
    IF strategy = "2"
    THEN SortByKey(combos, [k \in DOMAIN combos |-> combos[k].total_projection], TRUE)
    ELSE IF strategy = "3" THEN combos
         ELSE SortByKey(combos, [k \in DOMAIN combos |-> combos[k].total_diff], TRUE)

Finish ==
    /\ pc = "sort"
    /\ result' = Prefix(FinalSorted(valid_combinations, request.strategy),
                        request.max_options)
    /\ pc' = "done"
    /\ UNCHANGED <<request, players, salary_freed, traded_out_positions,
                   num_players_needed, i, used_players, valid_combinations,
                   probe, probe_out>>

Next ==
    \/ Calculate
    \/ CalculateEmpty
    \/ SingleStep
    \/ ProjectionStep
    \/ HybridStep
    \/ ValueStep
    \/ SearchEnd
    \/ Finish

Spec == Init /\ [][Next]_vars

(***************************************************************************)
(* Properties of one call of calculate_trade_options.                      *)
(***************************************************************************)
\* the budget as the request states it: cash in bank plus the price of every
\* traded-out player, the dict's price first, then the dataset's, else 0
Budget ==
    request.cash_in_bank
    + SumOver(request.traded_out_players,
              [t \in Range(request.traded_out_players) |->
                 IF t.price # NoPrice THEN t.price
                 ELSE IF t.name \in DatasetNames
                      THEN (CHOOSE r \in Range(Dataset) : r.Player = t.name).Price
                      ELSE 0])

Returned == pc = "done"

NamesOf(combo) == { combo.players[k].Player : k \in DOMAIN combo.players }

\* C1: every returned combination has total_price equal to the sum of its
\* players' prices and at most the budget (cash in bank plus the traded-out
\* players' prices, an unresolved price counting as 0), so salary_remaining
\* is the budget minus total_price and never negative, and no player priced
\* above the budget is in a combination.
C1_WithinBudget ==
    Returned =>
        \A n \in DOMAIN result :
            LET c == result[n]
            IN  /\ c.total_price = SumOver(c.players, [r \in Range(c.players) |-> r.Price])
                /\ c.total_price <= Budget
                /\ c.salary_remaining = Budget - c.total_price
                /\ c.salary_remaining >= 0
                /\ \A k \in DOMAIN c.players : c.players[k].Price <= Budget

\* a call with cash in bank and an unresolved traded-out price returned a
\* pair although a candidate of the searched list is priced above the budget
C1_Witness ==
    /\ Returned
    /\ request.cash_in_bank > 0
    /\ \E k \in DOMAIN request.traded_out_players :
           request.traded_out_players[k].name \notin DatasetNames
    /\ \E n \in DOMAIN result : Len(result[n].players) = 2
    /\ \E k \in DOMAIN players : players[k].Price > Budget

\* C2: in the combinations accepted so far, and so in the returned list, no
\* player name occurs in two combinations and no combination holds one player
\* twice.
C2_AtMostOneUse ==
    /\ \A n \in DOMAIN valid_combinations :
           \A a, b \in DOMAIN valid_combinations[n].players :
               a # b => valid_combinations[n].players[a].Player
                          # valid_combinations[n].players[b].Player
    /\ \A n, m \in DOMAIN valid_combinations :
           n # m => NamesOf(valid_combinations[n]) \cap NamesOf(valid_combinations[m]) = {}
    /\ \A n, m \in DOMAIN result :
           n # m => NamesOf(result[n]) \cap NamesOf(result[m]) = {}
    /\ \A n \in DOMAIN result : Cardinality(NamesOf(result[n])) = Len(result[n].players)

\* two pairs were returned
C2_Witness ==
    /\ Returned
    /\ Len(result) >= 2
    /\ \A n \in DOMAIN result : Len(result[n].players) = 2

\* C3: every returned combination has as many players as the request has
\* traded-out players.
C3_SizeEqualsTradeOuts ==
    Returned =>
        \A n \in DOMAIN result :
            Len(result[n].players) = Len(request.traded_out_players)

\* C4: when the requirement list is not empty, every returned combination
\* satisfies is_valid_trade_combo in its stored order.
C4_ReturnedAreValid ==
    (Returned /\ RequirementsGiven(traded_out_positions)) =>
        \A n \in DOMAIN result :
            is_valid_trade_combo(result[n].players, traded_out_positions)

\* a pair was returned under two requirement groups that name positions,
\* while some pair of unused candidates in the list fails the position check
C4_Witness ==
    /\ Returned
    /\ Len(traded_out_positions.items) = 2
    /\ \A k \in DOMAIN traded_out_positions.items :
           traded_out_positions.items[k].required_positions # << >>
    /\ \E n \in DOMAIN result : Len(result[n].players) = 2
    /\ \E a, b \in DOMAIN players :
           a # b /\ ~is_valid_trade_combo(<<players[a], players[b]>>, traded_out_positions)

\* C7: under the hybrid strategy every player of every returned combination
\* has a priority: Diff at least 7.80, a price in a bracket, and a level.
C7_HybridPlayersHavePriority ==
    (Returned /\ request.strategy = "3") =>
        \A n \in DOMAIN result : \A k \in DOMAIN result[n].players :
            LET r == result[n].players[k]
            IN  /\ r.Diff >= 7800
                /\ get_price_bracket(r.Price) # NoBracket
                /\ \E level \in 1..10 : meets_level_requirements(r.Diff, r.Price, level)
                /\ calculate_player_priority(r) # NoPriority

\* the candidates a value-strategy iteration may pair with players[i]
Eligible ==
    { j \in DOMAIN players :
        /\ players[j].Player \notin used_players
        /\ players[j].Player # players[i].Player
        /\ is_valid_trade_combo(<<players[i], players[j]>>, traded_out_positions)
        /\ players[i].Price + players[j].Price <= salary_freed }

\* a step of the value strategy, two players needed, that accepts a pair
ValueAccepts ==
    /\ pc = "search" /\ request.strategy = "1" /\ num_players_needed = 2
    /\ Len(valid_combinations') = Len(valid_combinations) + 1

\* C10: when the value strategy accepts a pair, the second player has the
\* largest combined Diff among the eligible candidates (unused, not the first,
\* position-valid with the first, pair within budget), and among equals it is
\* the earliest in the list.
C10_ValuePicksBest ==
    [][ValueAccepts =>
          LET combo == valid_combinations'[Len(valid_combinations')]
          IN  /\ combo.players[1] = players[i]
              /\ \E best \in Eligible :
                    /\ combo.players[2] = players[best]
                    /\ \A j \in Eligible :
                          /\ players[i].Diff + players[j].Diff
                               <= players[i].Diff + players[best].Diff
                          /\ players[j].Diff = players[best].Diff => best <= j
       ]_vars

\* the first pair of a value search was accepted, and its second player is
\* neither the first affordable valid candidate of the list nor the only
\* candidate of its Diff
C10_Witness ==
    /\ request.strategy = "1" /\ num_players_needed = 2
    /\ Len(valid_combinations) = 1
    /\ LET first == valid_combinations[1].players[1]
           second == valid_combinations[1].players[2]
           ok(r) == /\ r # first
                    /\ is_valid_trade_combo(<<first, r>>, traded_out_positions)
                    /\ first.Price + r.Price <= salary_freed
       IN  /\ \E a, b \in DOMAIN players :
                 a < b /\ players[b] = second /\ ok(players[a])
                 /\ players[a].Diff < second.Diff

\* C11: the returned list is in non-increasing order of total_diff under the
\* value strategy and of total_projection under the projection strategy; under
\* the hybrid strategy it is the accepted combinations in acceptance order.
C11_ReturnedOrder ==
    Returned =>
        /\ request.strategy = "1" =>
               \A n \in 1..(Len(result) - 1) :
                   result[n].total_diff >= result[n + 1].total_diff
        /\ request.strategy = "2" =>
               \A n \in 1..(Len(result) - 1) :
                   result[n].total_projection >= result[n + 1].total_projection
        /\ request.strategy = "3" => result = valid_combinations

\* a value search returned two or more combinations in another order than it
\* accepted them
C11_Witness ==
    /\ Returned
    /\ request.strategy = "1"
    /\ Len(result) >= 2
    /\ result # valid_combinations

\* the searched pool is two players, one holding only position p and one
\* holding only position q, under the two requirement groups [p] and [q],
\* p # q, and the two prices sum to at most the budget
TwoSlotsTwoPlayers ==
    /\ traded_out_positions.format = "dict"
    /\ Len(traded_out_positions.items) = 2
    /\ Len(players) = 2
    /\ LET g1 == traded_out_positions.items[1].required_positions
           g2 == traded_out_positions.items[2].required_positions
       IN  /\ Len(g1) = 1 /\ Len(g2) = 1 /\ g1[1] # g2[1]
           /\ \E a, b \in 1..2 :
                  /\ a # b
                  /\ players[a].POS1 = g1[1] /\ players[a].POS2 = ""
                  /\ players[b].POS1 = g2[1] /\ players[b].POS2 = ""
    /\ players[1].Price + players[2].Price <= salary_freed

\* C12: with two slots requiring two different single positions and a pool
\* of exactly two players, one per position, whose prices fit the budget, the
\* value strategy returns exactly one combination; it holds both players, its
\* total_price is the sum of their prices and its total_diff the sum of their
\* Diffs.
C12_OnePairOfBoth ==
    (Returned /\ request.strategy = "1" /\ TwoSlotsTwoPlayers) =>
        /\ Len(result) = 1
        /\ NamesOf(result[1]) = { players[1].Player, players[2].Player }
        /\ Len(result[1].players) = 2
        /\ result[1].total_price = players[1].Price + players[2].Price
        /\ result[1].total_diff = players[1].Diff + players[2].Diff

\* the stated case: slots [HOK] and [MID], the pool A (HOK, 400,000, 10) and
\* B (MID, 450,000, 8), budget 900,000, one combination of 850,000 and 18
C12_Witness ==
    /\ Returned /\ request.strategy = "1" /\ TwoSlotsTwoPlayers
    /\ { players[k].Player : k \in DOMAIN players } = {"A", "B"}
    /\ salary_freed = 900000
    /\ Len(result) = 1
    /\ result[1].total_price = 850000
    /\ result[1].total_diff = 18000

(***************************************************************************)
(* calculate_trade_options with the optional filters in use:               *)
(* allowed_positions, team_list, apply_lockout with simulate_datetime.     *)
(***************************************************************************)
\* reference times: none, a minute before the first kickoff, the first
\* kickoff, the second kickoff
DatetimeChoices == { NoDatetime, <<7, 19, 49>>, <<7, 19, 50>>, <<8, 18, 0>> }

FilterRequests ==
    [traded_out_players : { <<TradeOut("R1", NoPrice, "HOK", << >>)>>,
                            <<TradeOut("R1", NoPrice, "HOK", << >>),
                              TradeOut("R2", 450000, "INT", <<"MID">>)>>,
                            <<TradeOut("G", 300000, "EMG", <<"HOK", "MID">>)>> },
     cash_in_bank       : {50000},
     strategy           : {"1", "2", "3"},
     target_bye_round   : BOOLEAN,
     excluded_players   : { {}, {"D"}, {"A", "B", "C", "D", "E", "G"} },
     max_options        : {10},
     allowed_positions  : { {}, {"HOK"}, {"EDG", "HLF"} },
     team_list          : { {}, {"A", "C", "D", "E", "H", "R1"}, {"H"} },
     simulate_datetime  : DatetimeChoices,
     apply_lockout      : BOOLEAN]

InitFilters ==
    /\ request \in FilterRequests
    /\ pc = "called"
    /\ players = << >>
    /\ salary_freed = 0
    /\ traded_out_positions = [format |-> "dict", items |-> << >>, codes |-> << >>]
    /\ num_players_needed = 0
    /\ i = 1
    /\ used_players = {}
    /\ valid_combinations = << >>
    /\ result = << >>
    /\ probe = NoProbe
    /\ probe_out = NoAnswer

SpecFilters == InitFilters /\ [][Next]_vars

\* the players of the returned combinations
ReturnedPlayers ==
    UNION { Range(result[n].players) : n \in DOMAIN result }

\* C14: with a non-empty allowed_positions, every player of every returned
\* combination has POS1 or POS2 in allowed_positions.
C14_OnlyAllowedPositions ==
    (Returned /\ request.allowed_positions # {}) =>
        \A r \in ReturnedPlayers :
            r.POS1 \in request.allowed_positions \/ r.POS2 \in request.allowed_positions

\* C15: no returned combination holds a traded-out player, an excluded
\* player, a player outside a non-empty team_list, a player whose latest-round
\* Projection is missing or zero, a row of another round than the latest, or,
\* when apply_lockout is set with a reference time, a player whose
\* latest-round Team is locked at that time.
C15_FilteredPlayersNeverReturned ==
    Returned =>
        \A r \in ReturnedPlayers :
            /\ \A k \in DOMAIN request.traded_out_players :
                   r.Player # request.traded_out_players[k].name
            /\ r.Player \notin request.excluded_players
            /\ request.team_list # {} => r.Player \in request.team_list
            /\ r.Projection # 0
            /\ r.Round = latest_round
            /\ r \in Range(consolidated_data)
            /\ (request.apply_lockout /\ request.simulate_datetime # NoDatetime) =>
                   r.Team \notin locked_out_teams(request.simulate_datetime)

\* a call with excluded players, a team list and a lockout after the first
\* kickoff returned a combination, and a selected player of the team list who
\* is not excluded plays for a locked team
C15_Witness ==
    /\ Returned
    /\ result # << >>
    /\ request.excluded_players # {}
    /\ request.team_list # {}
    /\ request.apply_lockout /\ request.simulate_datetime # NoDatetime
    /\ \E r \in Range(Dataset) :
           /\ r.Projection # 0
           /\ r.Player \in request.team_list \ request.excluded_players
           /\ r.Team \in locked_out_teams(request.simulate_datetime)

(***************************************************************************)
(* generate_trade_options called on its own, with a pool, a budget and a   *)
(* requirement list of the caller's choice.                                *)
(***************************************************************************)
\* longest pool handed to generate_trade_options
MaxGenPool == 3

\* candidate rows: F1 and F2 are free (Price 0)
GenRows ==
    { Row("F1", "HOK", "",        0,  9000, 30, 2),
      Row("F2", "MID", "",        0,  8000, 20, 3),
      Row("P1", "MID", "",   300000, 10000, 40, 1),
      Row("P2", "HOK", "MID", 300000, 33000, 25, 4) }

GenPools ==
    { ps \in UNION { [1..n -> GenRows] : n \in 0..MaxGenPool } :
        \A a, b \in DOMAIN ps : a # b => ps[a].Player # ps[b].Player }

GenBudgets == { 0 - 100000, 0, 300000 }

\* requirement lists for n slots: no constraint, or HOK first and MID after
GenRequirements(n) ==
    { [format |-> "dict",
       items  |-> [k \in 1..n |-> [player_name |-> "out", required_positions |-> << >>]],
       codes  |-> << >>],
      [format |-> "dict",
       items  |-> [k \in 1..n |->
                     [player_name |-> "out",
                      required_positions |-> IF k = 1 THEN <<"HOK">> ELSE <<"MID">>]],
       codes  |-> << >>] }

InitGenerate ==
    /\ \E strategy \in {"1", "2", "3"}, tbr \in BOOLEAN, mo \in {1, 10} :
           /\ request = [traded_out_players |-> << >>, cash_in_bank |-> 0,
                         strategy |-> strategy, target_bye_round |-> tbr,
                         excluded_players |-> {}, max_options |-> mo,
                         allowed_positions |-> {}, team_list |-> {},
                         simulate_datetime |-> NoDatetime, apply_lockout |-> FALSE]
           /\ \E pool \in GenPools : players = PreSorted(pool, strategy, tbr)
    /\ salary_freed \in GenBudgets
    /\ num_players_needed \in {1, 2}
    /\ traded_out_positions \in GenRequirements(num_players_needed)
    /\ pc = "search"
    /\ i = 1
    /\ used_players = {}
    /\ valid_combinations = << >>
    /\ result = << >>
    /\ probe = NoProbe
    /\ probe_out = NoAnswer

NextGenerate ==
    \/ SingleStep
    \/ ProjectionStep
    \/ HybridStep
    \/ ValueStep
    \/ SearchEnd
    \/ Finish

SpecGenerate == InitGenerate /\ [][NextGenerate]_vars

\* C13 as stated: with a budget of zero or less and two players needed, no
\* paired combination is returned.
C13_AsStated ==
    (Returned /\ salary_freed <= 0 /\ num_players_needed = 2) =>
        \A n \in DOMAIN result : Len(result[n].players) # 2

\* C13: with two players needed, a negative budget returns nothing, and a
\* budget of zero returns only pairs of two players priced 0.
C13_ZeroBudgetOnlyFreePairs ==
    (Returned /\ salary_freed <= 0 /\ num_players_needed = 2) =>
        /\ salary_freed < 0 => result = << >>
        /\ \A n \in DOMAIN result : \A k \in DOMAIN result[n].players :
               result[n].players[k].Price = 0

\* a budget of zero, two players needed, a pool with a priced player and two
\* free ones: the pair of the free players is returned
C13_Witness ==
    /\ Returned /\ salary_freed = 0 /\ num_players_needed = 2
    /\ \E k \in DOMAIN players : players[k].Price > 0
    /\ \E n \in DOMAIN result : Len(result[n].players) = 2

(***************************************************************************)
(* The helpers called on their own.  During these calls no request runs.   *)
(***************************************************************************)
NoRequest ==
    [traded_out_players |-> << >>, cash_in_bank |-> 0, strategy |-> "1",
     target_bye_round |-> FALSE, excluded_players |-> {}, max_options |-> 10,
     allowed_positions |-> {}, team_list |-> {},
     simulate_datetime |-> NoDatetime, apply_lockout |-> FALSE]

Idle ==
    /\ request = NoRequest
    /\ pc = "idle"
    /\ players = << >>
    /\ salary_freed = 0
    /\ traded_out_positions = [format |-> "dict", items |-> << >>, codes |-> << >>]
    /\ num_players_needed = 0
    /\ i = 1
    /\ used_players = {}
    /\ valid_combinations = << >>
    /\ result = << >>

StaysIdle ==
    UNCHANGED <<request, pc, players, salary_freed, traded_out_positions,
                num_players_needed, i, used_players, valid_combinations, result>>

Answer(helper, value) == [done |-> TRUE, helper |-> helper, value |-> value]

(***************************************************************************)
(* is_valid_trade_combo on its own                                         *)
(***************************************************************************)
\* longest combination handed to is_valid_trade_combo
MaxCombo == 2
\* longest requirement list handed to is_valid_trade_combo
MaxGroups == 3

\* (POS1, POS2) of a trade-in player; "INT" is none of the six position codes
PositionProfiles ==
    { <<"HOK", "">>, <<"MID", "">>, <<"HOK", "MID">>, <<"MID", "EDG">>, <<"INT", "">> }

GroupChoices == { << >>, <<"HOK">>, <<"MID">>, <<"HOK", "MID">>, <<"EDG">> }

LegacyChoices == { <<"HOK">>, <<"MID">>, <<"HOK", "MID">>, <<"MID", "EDG">> }

PlayerNames == <<"P1", "P2", "P3", "P4">>

Combos ==
    { [k \in DOMAIN f |-> [Player |-> PlayerNames[k], POS1 |-> f[k][1], POS2 |-> f[k][2]]] :
        f \in UNION { [1..n -> PositionProfiles] : n \in 1..MaxCombo } }

RequirementLists ==
    { [format |-> "dict",
       items  |-> [k \in DOMAIN g |-> [player_name |-> "T", required_positions |-> g[k]]],
       codes  |-> << >>] :
        g \in UNION { [1..n -> GroupChoices] : n \in 1..MaxGroups } }
    \cup { [format |-> "list", items |-> << >>, codes |-> codes] : codes \in LegacyChoices }

InitPositions ==
    /\ Idle
    /\ probe \in [helper : {"is_valid_trade_combo"}, combo : Combos, tops : RequirementLists]
    /\ probe_out = NoAnswer

ValidateCombo ==
    /\ ~probe_out.done
    /\ probe_out' = Answer("is_valid_trade_combo",
                           is_valid_trade_combo(probe.combo, probe.tops))
    /\ UNCHANGED probe
    /\ StaysIdle

SpecPositions == InitPositions /\ [][ValidateCombo]_vars

\* the positions a player holds
Holds(player) == {player.POS1, player.POS2} \ {""}

\* indices of the requirement groups that name at least one position
NamedGroups(items) == { g \in DOMAIN items : items[g].required_positions # << >> }

\* a one-to-one assignment of the named groups to distinct players whose
\* positions meet the group
HasAssignment(combo, items) ==
    \E f \in [NamedGroups(items) -> DOMAIN combo] :
        /\ \A g, h \in NamedGroups(items) : g # h => f[g] # f[h]
        /\ \A g \in NamedGroups(items) :
               Holds(combo[f[g]]) \cap Range(items[g].required_positions) # {}

RECURSIVE WithoutEmptyGroups(_)
WithoutEmptyGroups(items) ==
    IF items = << >> THEN << >>
    ELSE IF Head(items).required_positions = << >> THEN WithoutEmptyGroups(Tail(items))
         ELSE <<Head(items)>> \o WithoutEmptyGroups(Tail(items))

\* C5: in per-player mode is_valid_trade_combo is true only if the groups that
\* name positions can be assigned one-to-one to distinct players of the
\* combination whose positions meet them; empty groups do not change the
\* answer; and when every group is empty the combination is valid exactly
\* when every player holds one of the six position codes.
C5_ValidOnlyWithAssignment ==
    (probe_out.done /\ probe.tops.format = "dict") =>
        LET combo == probe.combo
            items == probe.tops.items
        IN  /\ probe_out.value => HasAssignment(combo, items)
            /\ NamedGroups(items) # {} =>
                   probe_out.value
                     = is_valid_trade_combo(combo, [format |-> "dict",
                                                    items |-> WithoutEmptyGroups(items),
                                                    codes |-> << >>])
            /\ NamedGroups(items) = {} =>
                   (probe_out.value
                      <=> \A k \in DOMAIN combo :
                              Holds(combo[k]) \cap Range(all_positions) # {})

\* two players, one holding two positions, were accepted for two named groups
C5_Witness ==
    /\ probe_out.done /\ probe.tops.format = "dict"
    /\ probe_out.value
    /\ Len(probe.combo) = 2
    /\ Cardinality(NamedGroups(probe.tops.items)) = 2
    /\ \E k \in DOMAIN probe.combo : probe.combo[k].POS2 # ""

(***************************************************************************)
(* get_price_bracket on its own, on every price from below the first       *)
(* bracket to above the last                                               *)
(***************************************************************************)
\* how far below 250000 and above 857500 the prices tried reach
PriceMargin == 10

InitBracket ==
    /\ Idle
    /\ probe \in [helper : {"get_price_bracket"},
                  price  : (250000 - PriceMargin)..(857500 + PriceMargin)]
    /\ probe_out = NoAnswer

GetBracket ==
    /\ ~probe_out.done
    /\ probe_out' = Answer("get_price_bracket", get_price_bracket(probe.price))
    /\ UNCHANGED probe
    /\ StaysIdle

SpecBracket == InitBracket /\ [][GetBracket]_vars

\* C6: every price from 250000 to 857500 lies in exactly one of the nine
\* ranges and gets that bracket; the bracket of p + 1 is the bracket of p or
\* the next one; 250000 is in bracket 1 and 857500 in bracket 9; every price
\* below 250000 or above 857500, 249999 and 857501 among them, gets none.
C6_BracketTotalAndMonotone ==
    probe_out.done =>
        LET p == probe.price
            b == probe_out.value
        IN  IF 250000 <= p /\ p <= 857500
            THEN /\ b \in 1..9
                 /\ { k \in 1..9 : brackets[k][1] <= p /\ p <= brackets[k][2] } = {b}
                 /\ p = 250000 => b = 1
                 /\ p = 857500 => b = 9
                 /\ p < 857500 => get_price_bracket(p + 1) \in {b, b + 1}
            ELSE b = NoBracket

\* the first price of bracket 2 was looked up
C6_Witness ==
    probe_out.done /\ probe.price = 317501 /\ probe_out.value = 2

(***************************************************************************)
(* meets_level_requirements and calculate_player_priority on their own     *)
(***************************************************************************)
\* how many thousandths around each threshold of the level table are tried
DiffMargin == 1

\* the value-score thresholds of the level table, in thousandths
Thresholds ==
    { 7800, 9160, 9170, 12070, 12080, 14990, 15000, 17910, 17920, 20820,
      20830, 23740, 23750, 26660, 26670, 29570, 29580, 32490, 32500 }

DiffSamples ==
    { t + d : t \in Thresholds, d \in (0 - DiffMargin)..DiffMargin }
    \cup { 0, 7000, 8000, 33000 }

\* the first and last price of every bracket, the prices next to the table,
\* and 300000
PriceSamples ==
    { brackets[k][1] : k \in 1..9 } \cup { brackets[k][2] : k \in 1..9 }
    \cup { 249999, 300000, 857501 }

InitLevels ==
    /\ Idle
    /\ probe \in [helper : {"levels"}, Price : PriceSamples, Diff : DiffSamples,
                  bye_round_grade : {3}]
    /\ probe_out = NoAnswer

MeetsLevel(level) ==
    /\ ~probe_out.done
    /\ probe_out' = [done |-> TRUE, helper |-> "meets_level_requirements",
                     level |-> level,
                     value |-> meets_level_requirements(probe.Diff, probe.Price, level)]
    /\ UNCHANGED probe
    /\ StaysIdle

PlayerPriority ==
    /\ ~probe_out.done
    /\ probe_out' = [done |-> TRUE, helper |-> "calculate_player_priority",
                     level |-> 0,
                     value |-> calculate_player_priority(probe)]
    /\ UNCHANGED probe
    /\ StaysIdle

NextLevels ==
    \/ \E level \in 1..10 : MeetsLevel(level)
    \/ PlayerPriority

SpecLevels == InitLevels /\ [][NextLevels]_vars

AskedMeets == probe_out.done /\ probe_out.helper = "meets_level_requirements"
AskedPriority == probe_out.done /\ probe_out.helper = "calculate_player_priority"

\* C8 as stated: at price 300000, value score 33 gets a key of level 1, and
\* value score 8 meets no level and gets no priority.
C8_AsStated ==
    probe.Price = 300000 =>
        /\ (AskedPriority /\ probe.Diff = 33000) =>
               (probe_out.value # NoPriority /\ probe_out.value[1] = 1)
        /\ (AskedMeets /\ probe.Diff = 8000) => ~probe_out.value
        /\ (AskedPriority /\ probe.Diff = 8000) => probe_out.value = NoPriority

\* C8 as amended: at price 300000 (bracket 1), value score 33 gets a key of
\* level 1; value score 8 meets level 10 and no other level, gets a key of
\* level 10 and bracket 1, and is kept by the hybrid pre-sort.
C8_Level1AndLevel10 ==
    probe.Price = 300000 =>
        /\ (AskedPriority /\ probe.Diff = 33000) =>
               (probe_out.value # NoPriority /\ probe_out.value[1] = 1)
        /\ (AskedMeets /\ probe.Diff = 8000) =>
               (probe_out.value <=> probe_out.level = 10)
        /\ (AskedPriority /\ probe.Diff = 8000) =>
               /\ probe_out.value # NoPriority
               /\ probe_out.value[1] = 10
               /\ probe_out.value[2] = 1
               /\ HybridSorted(<<probe>>) = <<probe>>

\* the priority of a player priced 300000 with value score 8 was computed
C8_Witness ==
    AskedPriority /\ probe.Price = 300000 /\ probe.Diff = 8000

\* C9 as stated: a bracket-1 input that qualifies at level 10 qualifies at
\* level 1.
C9_AsStated ==
    (AskedMeets /\ probe_out.level = 10 /\ get_price_bracket(probe.Price) = 1
       /\ probe_out.value)
        => meets_level_requirements(probe.Diff, probe.Price, 1)

\* C9 as amended: for bracket-1 prices level 10 accepts exactly the value
\* scores from 7.80 to 9.16 and level 1 exactly those from 32.50 up, so no
\* input that qualifies at level 10 qualifies at level 1.
C9_Level10DisjointFromLevel1 ==
    (AskedMeets /\ get_price_bracket(probe.Price) = 1) =>
        /\ probe_out.level = 10 =>
               /\ probe_out.value <=> (7800 <= probe.Diff /\ probe.Diff <= 9160)
               /\ probe_out.value => ~meets_level_requirements(probe.Diff, probe.Price, 1)
        /\ probe_out.level = 1 => (probe_out.value <=> probe.Diff >= 32500)

\* a bracket-1 input was accepted at level 10
C9_Witness ==
    /\ AskedMeets /\ probe_out.level = 10 /\ probe_out.value
    /\ get_price_bracket(probe.Price) = 1

(***************************************************************************)
(* is_player_locked on its own                                             *)
(***************************************************************************)
\* minutes around each kickoff taken as reference times
LockMargin == 1

\* the time that is m minutes after day 0, 00:00
FromMinutes(m) == <<m \div 1440, (m % 1440) \div 60, m % 60>>

ReferenceTimes ==
    { NoDatetime }
    \cup { FromMinutes(Minutes(FIXTURES[k].kickoff) + d) :
             k \in DOMAIN FIXTURES, d \in (0 - LockMargin)..LockMargin }

\* "X" is not in the dataset
LockNames == AllNames \cup {"X"}

InitLocked ==
    /\ Idle
    /\ probe \in [helper : {"locked"}, player_name : LockNames,
                   simulate_datetime : ReferenceTimes]
    /\ probe_out = NoAnswer

IsPlayerLocked ==
    /\ probe.helper = "locked"
    /\ ~probe_out.done
    /\ probe_out' = Answer("locked",
                           is_player_locked(probe.player_name, probe.simulate_datetime))
    /\ UNCHANGED probe
    /\ StaysIdle

SpecLocked == InitLocked /\ [][IsPlayerLocked]_vars

\* the Team of the player's most recent round row
MostRecentTeam(name) == RowsOf(name)[1].Team

\* C16: is_player_locked is true exactly when a reference time is given, the
\* player is in the dataset, and the Team of the player's most recent round
\* row belongs to a fixture whose kickoff is at or before the reference time.
C16_LockedIffMostRecentTeamLocked ==
    (probe_out.done /\ probe_out.helper = "locked") =>
        (probe_out.value <=>
            /\ probe.simulate_datetime # NoDatetime
            /\ probe.player_name \in AllNames
            /\ \E k \in DOMAIN FIXTURES :
                   /\ MostRecentTeam(probe.player_name) \in FIXTURES[k].teams
                   /\ Minutes(FIXTURES[k].kickoff) <= Minutes(probe.simulate_datetime))

(***************************************************************************)
(* apply_bye_weighting on its own                                          *)
(***************************************************************************)
\* longest candidate list handed to apply_bye_weighting
MaxCandidates == 4

\* a candidate, its name aside; the projection is high where the value score
\* is low
Profile(is_injured, non_playing, grade, diff) ==
    [is_injured |-> is_injured, non_playing |-> non_playing,
     bye_round_grade |-> grade, diff |-> diff,
     projection |-> IF diff < 0 THEN 60 ELSE 40]

\* healthy candidates of grade unknown (0), 2 or 4 with a low or a high
\* value; injured ones of grade unknown and 2; a non-playing one
CandidateProfiles ==
    { Profile(FALSE, FALSE, g, d) : g \in {0, 2, 4}, d \in {0 - 3000, 8000} }
    \cup { Profile(TRUE, FALSE, 0, 8000), Profile(TRUE, FALSE, 2, 8000),
           Profile(FALSE, TRUE, 2, 8000) }

\* the k-th candidate of a list is named by its place
Named(profile, k) ==
    [name |-> k, is_injured |-> profile.is_injured,
     non_playing |-> profile.non_playing,
     bye_round_grade |-> profile.bye_round_grade,
     diff |-> profile.diff, projection |-> profile.projection]

CandidateLists ==
    { [k \in DOMAIN ps |-> Named(ps[k], k)] :
        ps \in UNION { [1..n -> CandidateProfiles] : n \in 0..MaxCandidates } }

InitBye ==
    /\ Idle
    /\ probe \in [helper : {"bye"}, candidates : CandidateLists,
                   mode : {"trade_out", "trade_in"}, strategy : {"1", "2"}]
    /\ probe_out = NoAnswer

\* apply_bye_weighting(candidates, mode=mode, strategy=strategy)
ApplyByeWeighting ==
    /\ probe.helper = "bye"
    /\ ~probe_out.done
    /\ probe_out' = [done |-> TRUE, helper |-> "bye", again |-> FALSE,
                     value |-> apply_bye_weighting(probe.candidates, probe.mode,
                                                   probe.strategy),
                     first |-> << >>]
    /\ UNCHANGED probe
    /\ StaysIdle

\* the same call on the list the first call returned
ApplyByeWeightingAgain ==
    /\ probe.helper = "bye"
    /\ probe_out.done /\ ~probe_out.again
    /\ probe_out' = [done |-> TRUE, helper |-> "bye", again |-> TRUE,
                     value |-> apply_bye_weighting(probe_out.value, probe.mode,
                                                   probe.strategy),
                     first |-> probe_out.value]
    /\ UNCHANGED probe
    /\ StaysIdle

NextBye == ApplyByeWeighting \/ ApplyByeWeightingAgain

SpecBye == InitBye /\ [][NextBye]_vars

\* the first call of a mode has returned
ByeReturned(mode) ==
    probe_out.done /\ probe_out.helper = "bye" /\ ~probe_out.again /\ probe.mode = mode

\* the strategy's value metric of a candidate
Metric(c) == IF probe.strategy = "2" THEN c.projection ELSE c.diff

SameFlags(x, y) == x.is_injured = y.is_injured /\ x.non_playing = y.non_playing

\* x comes strictly before y: injured first, then non-playing first, then
\* the lower grade rank, then the lower value metric
TradeOutBefore(x, y, rank) ==
    \/ x.is_injured /\ ~y.is_injured
    \/ x.is_injured = y.is_injured /\ x.non_playing /\ ~y.non_playing
    \/ SameFlags(x, y) /\ rank[x.bye_round_grade] < rank[y.bye_round_grade]
    \/ /\ SameFlags(x, y) /\ rank[x.bye_round_grade] = rank[y.bye_round_grade]
       /\ Metric(x) < Metric(y)

\* the output is a permutation of the input in the order TradeOutBefore
TradeOutOrdered(rank) ==
    LET out == probe_out.value
    IN  /\ Len(out) = Len(probe.candidates)
        /\ Range(out) = Range(probe.candidates)
        /\ \A a, b \in DOMAIN out : a < b => ~TradeOutBefore(out[b], out[a], rank)

C19_TradeInIdempotent ==
    /\ [](  (probe_out.done /\ probe_out.helper = "bye" /\ probe.mode = "trade_in") =>
               /\ probe_out.again => probe_out.value = probe_out.first
               /\ \A k \in DOMAIN probe_out.value :
                      "bye_sort" \notin DOMAIN probe_out.value[k]
               /\ \A k \in DOMAIN probe.candidates :
                      "bye_sort" \notin DOMAIN probe.candidates[k] )
    /\ [][probe' = probe]_vars

\* the second trade_in call returned, on a list the first call had filtered
\* and reordered and that holds two candidates equal on both keys
C19_Witness ==
    /\ probe_out.done /\ probe_out.helper = "bye" /\ probe.mode = "trade_in"
    /\ probe_out.again
    /\ Len(probe_out.first) < Len(probe.candidates)
    /\ \E a, b \in DOMAIN probe_out.first :
           /\ a < b
           /\ probe_out.first[a].bye_round_grade = probe_out.first[b].bye_round_grade
           /\ Metric(probe_out.first[a]) = Metric(probe_out.first[b])
    /\ \E a, b \in DOMAIN probe_out.first :
           a < b /\ probe_out.first[b].name < probe_out.first[a].name

(***************************************************************************)
(* trade_recommendations.calculate_trade_out_recommendations on its own.   *)
(* A squad player is the dict of team_players (name, price) together with  *)
(* the player's row of the latest round (Injured, Projection, Diff, Price, *)
(* bye_round_grade), or without one (in_data FALSE).  Names are full names,*)
(* and the rows of the squad stand in the dataset in squad order.          *)
(***************************************************************************)
\* largest squad handed to calculate_trade_out_recommendations
MaxSquad == 3

\* OVERVALUED_THRESHOLD = -2, in thousandths
OVERVALUED_THRESHOLD == 0 - 2000

\* identify_junk_cheapies: price_threshold and upside_threshold (5.0)
price_threshold == 350000

upside_threshold == 5000

SquadProfile(in_data, injured, projection, diff, price, grade) ==
    [in_data |-> in_data, Injured |-> injured, Projection |-> projection,
     Diff |-> diff, Price |-> price, bye_round_grade |-> grade]

\* healthy and selected: fair and cheap, fair and dear, of Diff exactly -2,
\* with upside and cheap, overvalued; injured; not selected (Projection 0);
\* absent from the latest round
SquadProfiles ==
    { SquadProfile(TRUE,  FALSE, 50,     1000, 300000, 2),
      SquadProfile(TRUE,  FALSE, 55,     1500, 500000, 4),
      SquadProfile(TRUE,  FALSE, 45, 0 - 2000, 500000, 0),
      SquadProfile(TRUE,  FALSE, 40,     6000, 300000, 3),
      SquadProfile(TRUE,  FALSE, 60, 0 - 3000, 500000, 1),
      SquadProfile(TRUE,  TRUE,  35,     4000, 400000, 2),
      SquadProfile(TRUE,  FALSE,  0,     3000, 450000, 3),
      SquadProfile(FALSE, FALSE,  0,        0,      0, 0) }

\* the k-th player of the squad, named by its place, with the price of its
\* team_players dict
SquadPlayer(profile, k) ==
    [name |-> k, price |-> 400000, in_data |-> profile.in_data,
     Injured |-> profile.Injured, Projection |-> profile.Projection,
     Diff |-> profile.Diff, Price |-> profile.Price,
     bye_round_grade |-> profile.bye_round_grade]

Squads ==
    { [k \in DOMAIN ps |-> SquadPlayer(ps[k], k)] :
        ps \in UNION { [1..n -> SquadProfiles] : n \in 0..MaxSquad } }

\* identify_injured_players: the squad players whose latest row is Injured
identify_injured_players(team_players) ==
    FilterSeq(team_players, { p \in Range(team_players) : p.in_data /\ p.Injured })

\* lines 292-309: not in the latest data, or Projection missing or 0
NotSelected(team_players) ==
    { p \in Range(team_players) : ~p.in_data \/ p.Projection = 0 }

\* a sort that puts the largest key first
SortDescending(rows, key) ==
    SortByLess(rows, [a \in DOMAIN rows |-> [b \in DOMAIN rows |->
                         LexLess(key[b], key[a])]])

\* pandas sort_values on one integer column, ascending; on these short frames
\* it leaves equal keys in row order
SortAscending(rows, key) ==
    SortByLess(rows, [a \in DOMAIN rows |-> [b \in DOMAIN rows |->
                         LexLess(key[a], key[b])]])

\* identify_junk_cheapies(team_players, exclude_names=exclude_names)
identify_junk_cheapies(team_players, exclude_names) ==
    LET team_data == FilterSeq(team_players,
                               { p \in Range(team_players) :
                                   p.in_data /\ p.name \notin exclude_names })
        junk == FilterSeq(team_data,
                          { p \in Range(team_data) :
                              p.Price < price_threshold /\ p.Diff < upside_threshold })
    IN  SortAscending(junk, [k \in DOMAIN junk |-> <<junk[k].Price, junk[k].Diff>>])

\* an entry of the list calculate_trade_out_recommendations returns
Recommend(p, reason) == [name |-> p.name, price |-> p.price, reason |-> reason]

\* lines 384-490: the selection without bye weighting
DefaultTradeOuts(team_players, num_trades, preseason_mode) ==
    LET injured == identify_injured_players(team_players)
        not_selected == NotSelected(team_players)
        step3 == Prefix([k \in DOMAIN injured |-> Recommend(injured[k], "injured")],
                        num_trades)
        chosen3 == { step3[k].name : k \in DOMAIN step3 }
        unselected == FilterSeq(team_players,
                                { p \in Range(team_players) :
                                    p.name \notin chosen3 /\ p \in not_selected })
        step4 == Prefix(step3 \o [k \in DOMAIN unselected |->
                                    Recommend(unselected[k], "not_selected")],
                        num_trades)
        already_selected_abbrev == { step4[k].name : k \in DOMAIN step4 }
        team_data == FilterSeq(team_players,
                               { p \in Range(team_players) :
                                   p.in_data /\ p.name \notin already_selected_abbrev })
        low == IF preseason_mode
               THEN FilterSeq(team_data, { p \in Range(team_data) :
                                             p.Diff < OVERVALUED_THRESHOLD })
               ELSE team_data
        low_sorted == SortAscending(low, [k \in DOMAIN low |-> <<low[k].Diff>>])
        step5 == IF Len(step4) < num_trades
                 THEN Prefix(step4 \o [k \in DOMAIN low_sorted |->
                                         Recommend(low_sorted[k], "low_upside")],
                             num_trades)
                 ELSE step4
        junk_cheapies == identify_junk_cheapies(team_players, already_selected_abbrev)
        step6 == IF Len(step5) < num_trades
                 THEN Prefix(step5 \o [k \in DOMAIN junk_cheapies |->
                                         Recommend(junk_cheapies[k], "junk_cheap")],
                             num_trades)
                 ELSE step5
    IN  Prefix(step6, num_trades)

\* lines 321-358: the candidate of a squad player with a latest row
ByeCandidate(p, not_selected) ==
    [name |-> p.name, price |-> p.price,
     reason |-> IF p.Injured THEN "injured"
                ELSE IF p \in not_selected THEN "not_selected" ELSE "low_upside",
     diff |-> p.Diff, projection |-> p.Projection,
     bye_round_grade |-> p.bye_round_grade,
     is_injured |-> p.Injured, non_playing |-> p \in not_selected]

\* lines 361-379: the candidate of a squad player without a latest row
AbsentCandidate(p) ==
    [name |-> p.name, price |-> p.price, reason |-> "not_selected",
     diff |-> 0, projection |-> 0, bye_round_grade |-> 0,
     is_injured |-> FALSE, non_playing |-> TRUE]

\* lines 314-382: the selection with bye weighting
ByeTradeOuts(team_players, num_trades, strategy, preseason_mode) ==
    LET not_selected == NotSelected(team_players)
        present == FilterSeq(team_players, { p \in Range(team_players) : p.in_data })
        kept == IF preseason_mode
                THEN FilterSeq(present,
                               { p \in Range(present) :
                                   \/ p.Injured
                                   \/ p \in not_selected
                                   \/ p.Diff < OVERVALUED_THRESHOLD })
                ELSE present
        absent == FilterSeq(team_players, { p \in Range(team_players) : ~p.in_data })
        candidates == [k \in DOMAIN kept |-> ByeCandidate(kept[k], not_selected)]
                      \o [k \in DOMAIN absent |-> AbsentCandidate(absent[k])]
    IN  Prefix(apply_bye_weighting(candidates, "trade_out", strategy), num_trades)

calculate_trade_out_recommendations(team_players, num_trades, strategy, target_bye_round, preseason_mode) ==
    IF team_players = << >> THEN << >>
    ELSE IF target_bye_round
         THEN ByeTradeOuts(team_players, num_trades, strategy, preseason_mode)
         ELSE DefaultTradeOuts(team_players, num_trades, preseason_mode)

InitTradeOut ==
    /\ Idle
    /\ probe \in [helper : {"trade_out"}, team_players : Squads,
                   num_trades : {1, 2, 3}, strategy : {"1", "2"},
                   target_bye_round : BOOLEAN, preseason_mode : BOOLEAN]
    /\ probe_out = NoAnswer

RecommendTradeOuts ==
    /\ probe.helper = "trade_out"
    /\ ~probe_out.done
    /\ probe_out' = Answer("trade_out",
                           calculate_trade_out_recommendations(
                               probe.team_players, probe.num_trades, probe.strategy,
                               probe.target_bye_round, probe.preseason_mode))
    /\ UNCHANGED probe
    /\ StaysIdle

SpecTradeOut == InitTradeOut /\ [][RecommendTradeOuts]_vars

\* the squad player a recommendation names
SquadPlayerOf(entry) ==
    CHOOSE p \in Range(probe.team_players) : p.name = entry.name

\* C20: in preseason mode every recommended player is injured, or not
\* selected (absent from the latest round or Projection missing or zero), or
\* overvalued (Diff < -2).
C20_PreseasonOnlyQualifying ==
    (probe_out.done /\ probe_out.helper = "trade_out" /\ probe.preseason_mode) =>
        \A k \in DOMAIN probe_out.value :
            LET p == SquadPlayerOf(probe_out.value[k])
            IN  \/ p.in_data /\ p.Injured
                \/ ~p.in_data
                \/ p.Projection = 0
                \/ p.Diff < 0 - 2000

\* the place of a reason in the priority order
ReasonRank(reason) ==
    CASE reason = "injured" -> 1
      [] reason = "not_selected" -> 2
      [] reason = "low_upside" -> 3
      [] reason = "junk_cheap" -> 4

\* the roster player belongs to the category of that rank
InCategory(p, rank) ==
    CASE rank = 1 -> p.in_data /\ p.Injured
      [] rank = 2 -> ~p.in_data \/ p.Projection = 0
      [] rank = 3 -> p.in_data /\ (probe.preseason_mode => p.Diff < 0 - 2000)
      [] rank = 4 -> p.in_data /\ p.Price < 350000 /\ p.Diff < 5000

\* a call without bye targeting has returned
DefaultReturned ==
    probe_out.done /\ probe_out.helper = "trade_out" /\ ~probe.target_bye_round

\* C21: without bye targeting the returned list has at most num_trades
\* entries; its reasons come in the order injured, not_selected, low_upside,
\* junk_cheap, every entry naming a roster player of the category of its
\* reason; the low_upside entries are in ascending Diff; and an entry of a
\* category is there only if every roster player of each category of higher
\* priority is named by an entry before it.
C21_CategoryOrder ==
    DefaultReturned =>
        LET out == probe_out.value
        IN  /\ Len(out) <= probe.num_trades
            /\ \A k \in DOMAIN out :
                   InCategory(SquadPlayerOf(out[k]), ReasonRank(out[k].reason))
            /\ \A a, b \in DOMAIN out :
                   a < b => ReasonRank(out[a].reason) <= ReasonRank(out[b].reason)
            /\ \A a, b \in DOMAIN out :
                   (a < b /\ out[a].reason = "low_upside" /\ out[b].reason = "low_upside")
                       => SquadPlayerOf(out[a]).Diff <= SquadPlayerOf(out[b]).Diff
            /\ \A k \in DOMAIN out :
                   \A p \in Range(probe.team_players) :
                       (\E rank \in 1..(ReasonRank(out[k].reason) - 1) : InCategory(p, rank))
                           => \E m \in 1..(k - 1) : out[m].name = p.name

\* three entries of three categories, the last one a junk cheapie, with a
\* roster player left out
C21_Witness ==
    /\ DefaultReturned
    /\ Len(probe_out.value) = 3
    /\ probe_out.value[1].reason = "injured"
    /\ probe_out.value[2].reason = "low_upside"
    /\ probe_out.value[3].reason = "junk_cheap"
    /\ probe_out.value[3].name # probe_out.value[2].name

\* C28: the returned list never names the same roster player twice.
C28_NoPlayerTwice ==
    (probe_out.done /\ probe_out.helper = "trade_out") =>
        \A a, b \in DOMAIN probe_out.value :
            a # b => probe_out.value[a].name # probe_out.value[b].name

(***************************************************************************)
(* match_abbreviated_name_to_full on its own.  A name is the sequence of   *)
(* its characters.  all_players stands for the Player column, in row       *)
(* order; its names are player names as the data holds them: none begins   *)
(* with a space (for such a name first_name[0] at line 73 has no value).   *)
(***************************************************************************)
\* longest name handed to match_abbreviated_name_to_full
MaxNameLen == 5

Chars == {"A", "a", ".", " "}

\* str.upper on one character
Upper(c) == IF c = "a" THEN "A" ELSE c

\* the Player columns tried: two players who share surname and initial, in
\* either order and with repeated rows; a data name that itself reads as an
\* abbreviation; surnames that differ in case or hold a space; no rows at all
PlayerColumns ==
    { << <<"A", "a", " ", "A">>, <<"a", " ", "A">>, <<"A", "A">> >>,
      << <<"a", " ", "A">>, <<"A", "a", " ", "A">>, <<"a", " ", "A">> >>,
      << <<"A", ".", " ", "A">>, <<"A", " ", "A">> >>,
      << <<"A", " ", "a">>, <<"A", " ", " ", "A">>, <<"A", "A">> >>,
      << <<"A", " ", "A", " ", "a">>, <<"a", ".", " ", "a">>, <<"A", " ">> >>,
      << >> }

\* the names of length 0..MaxNameLen
NamesTried == UNION { [1..n -> Chars] : n \in 0..MaxNameLen }

\* s.find(sep) + 1 for the separator '. ': the first place of it, 0 if none
FindDotSpace(s) ==
    IF \E k \in 1..(Len(s) - 1) : s[k] = "." /\ s[k + 1] = " "
    THEN CHOOSE k \in 1..(Len(s) - 1) :
             /\ s[k] = "." /\ s[k + 1] = " "
             /\ \A m \in 1..(k - 1) : ~(s[m] = "." /\ s[m + 1] = " ")
    ELSE 0

\* s.find(' ') + 1
FindSpace(s) ==
    IF \E k \in DOMAIN s : s[k] = " "
    THEN CHOOSE k \in DOMAIN s : s[k] = " " /\ \A m \in 1..(k - 1) : s[m] # " "
    ELSE 0

\* abbreviated_name.split('. ', 1)
SplitDotSpace(s) ==
    IF FindDotSpace(s) = 0 THEN <<s>>
    ELSE <<SubSeq(s, 1, FindDotSpace(s) - 1), SubSeq(s, FindDotSpace(s) + 2, Len(s))>>

\* player_name.split(' ', 1)
SplitSpace(s) ==
    IF FindSpace(s) = 0 THEN <<s>>
    ELSE <<SubSeq(s, 1, FindSpace(s) - 1), SubSeq(s, FindSpace(s) + 1, Len(s))>>

\* all_players['Player'].unique(): the names in order of first appearance
UniqueNames(all_players) ==
    LET firsts == { k \in DOMAIN all_players :
                      \A m \in 1..(k - 1) : all_players[m] # all_players[k] }
    IN  [j \in 1..Cardinality(firsts) |->
           all_players[CHOOSE k \in firsts : Cardinality({ m \in firsts : m < k }) = j - 1]]

\* line 73 comparing the characters as they are
NameMatchesSameCase(player_name, initial, surname) ==
    /\ Len(SplitSpace(player_name)) = 2
    /\ SplitSpace(player_name)[2] = surname
    /\ <<SplitSpace(player_name)[1][1]>> = initial

\* lines 69-73: last_name == surname and first_name[0].upper() == initial.upper()
NameMatches(player_name, initial, surname) ==
    /\ Len(SplitSpace(player_name)) = 2
    /\ SplitSpace(player_name)[2] = surname
    /\ <<Upper(SplitSpace(player_name)[1][1])>> = [k \in DOMAIN initial |-> Upper(initial[k])]

match_abbreviated_name_to_full(abbreviated_name, all_players) ==
    IF abbreviated_name \in Range(all_players) THEN abbreviated_name
    ELSE IF Len(SplitDotSpace(abbreviated_name)) # 2 THEN abbreviated_name
    ELSE LET names == UniqueNames(all_players)
             hits == { k \in DOMAIN names :
                         NameMatches(names[k], SplitDotSpace(abbreviated_name)[1],
                                     SplitDotSpace(abbreviated_name)[2]) }
         IN  IF hits = {} THEN abbreviated_name
             ELSE names[CHOOSE k \in hits : \A m \in hits : k <= m]

InitMatch ==
    /\ Idle
    /\ probe \in [helper : {"match_name"}, abbreviated_name : NamesTried,
                   all_players : PlayerColumns]
    /\ probe_out = NoAnswer

\* one call
MatchName ==
    /\ probe.helper = "match_name"
    /\ ~probe_out.done
    /\ probe_out' = [done |-> TRUE, helper |-> "match_name", again |-> FALSE,
                     value |-> match_abbreviated_name_to_full(probe.abbreviated_name,
                                                              probe.all_players)]
    /\ UNCHANGED probe
    /\ StaysIdle

\* a second call, on what the first one returned
MatchNameAgain ==
    /\ probe.helper = "match_name"
    /\ probe_out.done /\ ~probe_out.again
    /\ probe_out' = [done |-> TRUE, helper |-> "match_name", again |-> TRUE,
                     first |-> probe_out.value,
                     value |-> match_abbreviated_name_to_full(probe_out.value,
                                                              probe.all_players)]
    /\ UNCHANGED probe
    /\ StaysIdle

NextMatch == MatchName \/ MatchNameAgain

SpecMatch == InitMatch /\ [][NextMatch]_vars

\* the name reads I. Surname, I one character: its surname
SurnameOf(name) == SubSeq(name, 4, Len(name))

HasAbbreviatedForm(name) == Len(name) >= 3 /\ name[2] = "." /\ name[3] = " "

\* the places of the Player column whose name has the surname of the
\* abbreviated name after its first space and starts with its initial,
\* whatever the case
Candidates(name, all_players) ==
    { k \in DOMAIN all_players :
        /\ \E n \in DOMAIN all_players[k] :
              /\ all_players[k][n] = " "
              /\ \A m \in 1..(n - 1) : all_players[k][m] # " "
              /\ SubSeq(all_players[k], n + 1, Len(all_players[k])) = SurnameOf(name)
        /\ Upper(all_players[k][1]) = Upper(name[1]) }

TeamChoices ==
    { <<"R1">>, <<"C">>, <<"E", "G">>, <<"R1", "R2", "X">>, << >> }

\* the Injured columns tried: nobody, one or three selected players, every
\* player, every player but an unselected one
InjuredChoices ==
    { {}, {"G"}, {"A", "D", "E"}, DatasetNames, DatasetNames \ {"R1"} }

\* the dict of team_players (the price is the one the team sheet shows)
\* together with the player's row of the latest round
TeamPlayer(name, injured) ==
    IF name \in DatasetNames
    THEN [name |-> name, price |-> 400000, in_data |-> TRUE,
          Injured |-> name \in injured,
          Projection |-> (CHOOSE r \in Range(Dataset) : r.Player = name).Projection,
          Diff |-> (CHOOSE r \in Range(Dataset) : r.Player = name).Diff,
          Price |-> (CHOOSE r \in Range(Dataset) : r.Player = name).Price,
          bye_round_grade |->
              (CHOOSE r \in Range(Dataset) : r.Player = name).bye_round_grade]
    ELSE [name |-> name, price |-> 400000, in_data |-> FALSE, Injured |-> FALSE,
          Projection |-> 0, Diff |-> 0, Price |-> 0, bye_round_grade |-> 0]

\* trade_recommendations.py lines 530-537: the trade-outs selected
trade_out_players(p) ==
    calculate_trade_out_recommendations(
        [k \in DOMAIN p.team_players |-> TeamPlayer(p.team_players[k], p.Injured)],
        p.num_trades, p.strategy, p.target_bye_round, p.preseason_mode)

\* lines 554-565: the latest-round players whose Injured flag is not true
non_injured_players(p) == DatasetNames \ p.Injured

\* lines 568-582: the call of calculate_trade_options; the selected dicts
\* carry no slot_position and no trade_in_positions
CombinedRequest(p) ==
    [traded_out_players |->
         [k \in DOMAIN trade_out_players(p) |->
            TradeOut(trade_out_players(p)[k].name, trade_out_players(p)[k].price,
                     "", << >>)],
     cash_in_bank       |-> p.cash_in_bank,
     strategy           |-> p.strategy,
     target_bye_round   |-> p.target_bye_round,
     excluded_players   |-> {},
     max_options        |-> 10,
     allowed_positions  |-> {},
     team_list          |-> non_injured_players(p),
     simulate_datetime  |-> NoDatetime,
     apply_lockout      |-> FALSE]

InitTeamTrades ==
    /\ request = NoRequest
    /\ pc = "received"
    /\ players = << >>
    /\ salary_freed = 0
    /\ traded_out_positions = [format |-> "dict", items |-> << >>, codes |-> << >>]
    /\ num_players_needed = 0
    /\ i = 1
    /\ used_players = {}
    /\ valid_combinations = << >>
    /\ result = << >>
    /\ probe \in [helper : {"team_trades"}, team_players : TeamChoices,
                   Injured : InjuredChoices, cash_in_bank : {50000},
                   strategy : {"1", "2", "3"}, num_trades : {0, 1, 2},
                   target_bye_round : BOOLEAN, preseason_mode : BOOLEAN]
    /\ probe_out = NoAnswer

Response(status, error, trade_in) ==
    [done |-> TRUE, helper |-> "team_trades", status |-> status,
     error |-> error, trade_in |-> trade_in]

\* app.py lines 436-437
RejectNoTeam ==
    /\ pc = "received"
    /\ probe.team_players = << >>
    /\ probe_out' = Response(400, "No team players provided", << >>)
    /\ pc' = "responded"
    /\ UNCHANGED <<request, players, salary_freed, traded_out_positions,
                   num_players_needed, i, used_players, valid_combinations, result,
                   probe>>

\* calculate_combined_trade_recommendations up to its call of
\* calculate_trade_options
Combine ==
    /\ pc = "received"
    /\ probe.team_players # << >>
    /\ request' = CombinedRequest(probe)
    /\ pc' = "called"
    /\ UNCHANGED <<players, salary_freed, traded_out_positions,
                   num_players_needed, i, used_players, valid_combinations, result,
                   probe, probe_out>>

\* app.py lines 460-510: the recommendations formatted and returned
Respond ==
    /\ pc = "done"
    /\ probe_out' = Response(200, "", result)
    /\ pc' = "responded"
    /\ UNCHANGED <<request, players, salary_freed, traded_out_positions,
                   num_players_needed, i, used_players, valid_combinations, result,
                   probe>>

\* app.py lines 512-517: the handler's except Exception
RespondError ==
    /\ pc = "raised"
    /\ probe_out' = Response(500, "An error occurred: list index out of range", << >>)
    /\ pc' = "responded"
    /\ UNCHANGED <<request, players, salary_freed, traded_out_positions,
                   num_players_needed, i, used_players, valid_combinations, result,
                   probe>>

NextTeamTrades ==
    \/ RejectNoTeam
    \/ Combine
    \/ CalculateRaises
    \/ Next
    \/ Respond
    \/ RespondError

SpecTeamTrades == InitTeamTrades /\ [][NextTeamTrades]_vars

\* calculate_trade_options has been called without a trade-out player
CalledWithNoTradeOuts ==
    /\ probe.helper = "team_trades"
    /\ pc \in {"called", "raised", "responded"}
    /\ probe.team_players # << >>
    /\ request.traded_out_players = << >>

\* C23: a call of calculate_trade_options without trade-out players, as when
\* the selection selects nobody, never fails inside; it is answered with a
\* rejection (status 400) and no combinations.
C23_NoTradeOutsRejected ==
    CalledWithNoTradeOuts =>
        /\ pc # "raised"
        /\ pc = "responded" =>
               /\ probe_out.status = 400
               /\ probe_out.error # "An error occurred: list index out of range"
               /\ probe_out.trade_in = << >>

\* C30: no returned trade-in combination holds a player whose latest-round
\* Injured flag is true.
C30_NoInjuredTradeIn ==
    (pc = "responded" /\ probe_out.status = 200) =>
        \A n \in DOMAIN probe_out.trade_in :
            \A k \in DOMAIN probe_out.trade_in[n].players :
                probe_out.trade_in[n].players[k].Player \notin probe.Injured

(***************************************************************************)
(* Order dependence of the per-player position check                       *)
(***************************************************************************)
\* the same players in the opposite order
Swapped(combo) == <<combo[2], combo[1]>>

\* a player of two positions ahead of a player of one, and the groups that
\* ask for the shared position first
DualFirst ==
    << [Player |-> "P1", POS1 |-> "HOK", POS2 |-> "MID"],
       [Player |-> "P2", POS1 |-> "MID", POS2 |-> ""] >>

SharedFirst ==
    [format |-> "dict",
     items  |-> << [player_name |-> "T", required_positions |-> <<"MID">>],
                   [player_name |-> "T", required_positions |-> <<"HOK">>] >>,
     codes  |-> << >>]

\* two players were checked against two named groups and rejected although
\* the groups can be assigned one-to-one to them
RejectedWithAssignment ==
    /\ probe_out.done /\ probe_out.helper = "is_valid_trade_combo"
    /\ probe.tops.format = "dict"
    /\ Len(probe.combo) = 2
    /\ Cardinality(NamedGroups(probe.tops.items)) = 2
    /\ ~probe_out.value
    /\ HasAssignment(probe.combo, probe.tops.items)

\* C24: the per-player check depends on the order of the players.  The
\* combination DualFirst is rejected for the groups SharedFirst although a
\* one-to-one assignment exists, and is accepted with its players swapped;
\* and whenever two players are rejected for two named groups that can be
\* assigned one-to-one, the same players in the opposite order are accepted.
C24_OrderDependent ==
    /\ ~is_valid_trade_combo(DualFirst, SharedFirst)
    /\ HasAssignment(DualFirst, SharedFirst.items)
    /\ is_valid_trade_combo(Swapped(DualFirst), SharedFirst)
    /\ RejectedWithAssignment => is_valid_trade_combo(Swapped(probe.combo), probe.tops)

\* the check has rejected DualFirst for SharedFirst
C24_Witness ==
    /\ RejectedWithAssignment
    /\ probe.combo = DualFirst
    /\ probe.tops = SharedFirst
    /\ is_valid_trade_combo(Swapped(probe.combo), probe.tops)

(***************************************************************************)
(* The pairs an iteration of a pair loop examines                          *)
(***************************************************************************)
\* an iteration of a pair loop is about to run under named requirements
PairIteration ==
    /\ pc = "search" /\ num_players_needed # 1 /\ i <= Len(players)
    /\ traded_out_positions.format = "dict"
    /\ CollectRequirements(traded_out_positions.items) # << >>

\* the inner loop reaches is_valid_trade_combo for the second player j
Reached(j) ==
    /\ players[i].Player \notin used_players
    /\ request.strategy = "3" => players[i].Price <= salary_freed
    /\ players[j].Player # players[i].Player
    /\ players[j].Player \notin used_players

MeetsPositions(j) ==
    is_valid_trade_combo(<<players[i], players[j]>>, traded_out_positions)

WithinBudget(j) == players[i].Price + players[j].Price <= salary_freed

\* the projection and hybrid scans stop at the first pair they can take,
\* unless bye targeting is on
Examined(j) ==
    /\ j \in DOMAIN players
    /\ Reached(j)
    /\ (request.strategy \in {"2", "3"} /\ ~request.target_bye_round)
           => \A k \in 1..(j - 1) : Reached(k) => ~(MeetsPositions(k) /\ WithinBudget(k))

\* the iteration appends the pair (players[i], players[j])
AcceptedNow(j) ==
    /\ Len(valid_combinations') = Len(valid_combinations) + 1
    /\ valid_combinations'[Len(valid_combinations')].players = <<players[i], players[j]>>

\* C25 as stated: every examined pair that is not accepted fails the
\* position requirements.
C25_AsStated ==
    [][PairIteration =>
          \A j \in DOMAIN players :
              (Examined(j) /\ ~AcceptedNow(j)) => ~MeetsPositions(j)]_vars

\* C25: every pair an iteration accepts meets the position requirements; an
\* examined pair that meets them and is not accepted is over budget, or the
\* iteration accepted the first player with another partner.
C25_UnacceptedForBudgetOrPartner ==
    [][PairIteration =>
          \A j \in DOMAIN players :
              Examined(j) =>
                  /\ AcceptedNow(j) => MeetsPositions(j)
                  /\ (MeetsPositions(j) /\ ~AcceptedNow(j)) =>
                         \/ ~WithinBudget(j)
                         \/ \E k \in DOMAIN players : k # j /\ AcceptedNow(k)]_vars

\* under the value strategy a pair was returned whose first player also
\* meets the requirements with a player that was never used, the two being
\* over budget together
C25_Witness ==
    /\ pc = "done" /\ request.strategy = "1" /\ num_players_needed # 1
    /\ CollectRequirements(traded_out_positions.items) # << >>
    /\ \E n \in DOMAIN valid_combinations :
           \E r \in Range(players) :
               /\ \A m \in DOMAIN valid_combinations :
                      r.Player \notin NamesOf(valid_combinations[m])
               /\ is_valid_trade_combo(<<valid_combinations[n].players[1], r>>,
                                       traded_out_positions)
               /\ valid_combinations[n].players[1].Price + r.Price > salary_freed

\* the second players the iteration could take: unused, not the first
\* player, meeting the position requirements with it, within budget together
Partners ==
    { j \in DOMAIN players :
        /\ j # i
        /\ players[j].Player \notin used_players
        /\ is_valid_trade_combo(<<players[i], players[j]>>, traded_out_positions)
        /\ players[i].Price + players[j].Price <= salary_freed }

ProjectionIteration ==
    /\ pc = "search" /\ num_players_needed = 2 /\ i <= Len(players)
    /\ request.strategy = "2"

\* C26: under the projection strategy with two players needed, an iteration
\* whose first player is unused accepts that player with the earliest
\* partner in list order, and accepts nothing when there is no partner; the
\* rule does not mention bye targeting, so for one list order both modes
\* take the same second player.
C26_EarliestPartner ==
    [][ProjectionIteration =>
          /\ \A j \in DOMAIN players :
                 AcceptedNow(j) =>
                     /\ players[i].Player \notin used_players
                     /\ j \in Partners
                     /\ \A k \in Partners : j <= k
          /\ (players[i].Player \notin used_players /\ Partners # {})
                 => \E j \in Partners : AcceptedNow(j)]_vars

\* with bye targeting on, a returned pair's second player stands in the list
\* ahead of a player that was never used and would have done as well
C26_Witness ==
    /\ pc = "done" /\ request.strategy = "2" /\ request.target_bye_round
    /\ num_players_needed = 2
    /\ \E n \in DOMAIN valid_combinations :
           \E b, c \in DOMAIN players :
               /\ players[b] = valid_combinations[n].players[2]
               /\ b < c
               /\ \A m \in DOMAIN valid_combinations :
                      players[c].Player \notin NamesOf(valid_combinations[m])
               /\ is_valid_trade_combo(<<valid_combinations[n].players[1], players[c]>>,
                                       traded_out_positions)
               /\ valid_combinations[n].players[1].Price + players[c].Price
                      <= salary_freed

(***************************************************************************)
(* The hybrid pre-sort of generate_trade_options on its own: the priority  *)
(* filter and players.sort(key=calculate_player_priority) of lines 598-603 *)
(***************************************************************************)
\* longest list handed to the hybrid pre-sort
MaxSortPool == 3

\* three players of level 8 and bracket 3, one without a bye grade; a player
\* of level 7 and bracket 3 without a bye grade; players of bracket 1 at
\* levels 9 and 10; a player without a priority (Diff below 7.80)
SortRows ==
    { Row("S1", "MID", "", 450000,  8000, 50, 0),
      Row("S2", "MID", "", 400000,  8500, 50, 2),
      Row("S3", "MID", "", 420000,  9000, 50, 4),
      Row("S4", "MID", "", 400000, 10000, 50, 0),
      Row("S5", "MID", "", 300000, 10000, 50, 1),
      Row("S6", "MID", "", 300000,  8000, 50, 3),
      Row("S7", "MID", "", 400000,  7000, 50, 2) }

SortPools ==
    { ps \in UNION { [1..n -> SortRows] : n \in 0..MaxSortPool } :
        \A a, b \in DOMAIN ps : a # b => ps[a].Player # ps[b].Player }

InitHybridSort ==
    /\ Idle
    /\ probe \in [helper : {"hybrid_sort"}, players : SortPools]
    /\ probe_out = NoAnswer

HybridPreSort ==
    /\ probe.helper = "hybrid_sort"
    /\ ~probe_out.done
    /\ probe_out' = Answer("hybrid_sort", HybridSorted(probe.players))
    /\ UNCHANGED probe
    /\ StaysIdle

SpecHybridSort == InitHybridSort /\ [][HybridPreSort]_vars

\* level and bracket of a player that has a priority
LevelOf(r) == calculate_player_priority(r)[1]

BracketOf(r) == calculate_player_priority(r)[2]

\* a before b in the stated order: lower level, then lower bracket, then the
\* higher bye grade with no grade counting as the worst, then the higher Diff
StatedOrder(a, b) ==
    IF LevelOf(a) # LevelOf(b) THEN LevelOf(a) < LevelOf(b)
    ELSE IF BracketOf(a) # BracketOf(b) THEN BracketOf(a) < BracketOf(b)
    ELSE IF a.bye_round_grade # b.bye_round_grade
         THEN a.bye_round_grade > b.bye_round_grade
    ELSE a.Diff >= b.Diff

\* C27: the hybrid pre-sort leaves the players that have a priority, ordered
\* by ascending level, then ascending bracket, then higher bye grade first,
\* then higher Diff first; a player without a bye grade counts as having the
\* worst grade and is never ahead of a player of its level and bracket that
\* has a grade.
C27_HybridPreSortOrder ==
    (probe_out.done /\ probe_out.helper = "hybrid_sort") =>
        /\ \A k \in DOMAIN probe_out.value :
               calculate_player_priority(probe_out.value[k]) # NoPriority
        /\ \A a, b \in DOMAIN probe_out.value :
               a < b => StatedOrder(probe_out.value[a], probe_out.value[b])

\* C29: for a fixed price in a bracket 1..9, when a player of value score d
\* has a priority, the player of the same price with any value score
\* d2 >= d has a priority too, at a level number that is not larger.
C29_MonotoneInValueScore ==
    (AskedPriority /\ probe_out.value # NoPriority) =>
        \A d2 \in DiffSamples :
            d2 >= probe.Diff =>
                /\ calculate_player_priority([probe EXCEPT !.Diff = d2]) # NoPriority
                /\ calculate_player_priority([probe EXCEPT !.Diff = d2])[1] <= probe_out.value[1]

====
